---- MODULE Spec2Model ----
(***************************************************************************)
(* Render-pass recording and validation core of wgpu-core                  *)
(* (wgpu-core/src/command/render.rs).                                      *)
(*                                                                         *)
(* The module models the two forms of a render pass side by side:          *)
(*   - the encoded form, command_encoder_run_render_pass, whose command    *)
(*     loop interprets RenderCommand values against a local `State`;       *)
(*   - the incremental form, the render_pass_* entry points, which act on  *)
(*     a `RenderPass` object held in the hub.                              *)
(* Every logical command is handed to both forms in the same step, each    *)
(* form running the translation of its own handler.  A panic of the Rust   *)
(* code (assert!, unwrap, index out of bounds, checked arithmetic) stops   *)
(* the form it happens in: pc = "failed", with the state as it was at the  *)
(* panic.                                                                  *)
(*                                                                         *)
(* Spec hands the commands of one pass to both forms.  PassesSpec runs     *)
(* passes one after the other on one command buffer and one device, for    *)
(* what lives longer than a pass: the swap-chain image of the command      *)
(* buffer, the view tracker, the caches of the device, the hub's RenderPass.*)
(* GuardsSpec lets two threads call the entry points, each taking the      *)
(* guards of the hub's registries in the order of its code, for what the   *)
(* guards order and protect.                                               *)
(* EndPassSpec runs the passes on a command buffer that may hold no        *)
(* sub-buffer and that tracks a buffer the passes bind, for the two        *)
(* branches of render_pass_end_pass and its barriers.                      *)
(*                                                                         *)
(* Machine integers keep their wrap-around, on a reduced width: u32 is     *)
(* U32Bits wide and u64 (BufferAddress) is U64Bits wide.                    *)
(***************************************************************************)
EXTENDS Integers, Sequences, FiniteSets, TLC

VARIABLES
    debug_assertions,   \* cfg!(debug_assertions); also turns on overflow checks
    commands,           \* pass.commands: the commands handed to the pass so far
    device,             \* the render pass and framebuffer caches of the device
    enc,                \* the encoded form: command_encoder_run_render_pass
    inc,                \* the incremental form: the RenderPass of the hub
    passes,             \* the passes begun on the command buffer so far
    threads,            \* per thread: the entry point it is in, guards taken
    render_passes,      \* hub.render_passes: the RenderPass of each pass id
    calls               \* per pass id: the calls that returned so far

vars == <<debug_assertions, commands, device, enc, inc, passes,
          threads, render_passes, calls>>

----------------------------------------------------------------------------
(* Bounds of the model *)

\* width of u32 in the model
U32Bits == 4

\* commands handed to one pass
MaxCommands == 3

\* passes run one after the other on one command buffer
MaxPasses == 3

\* entry points called by the threads in one run
MaxCalls == 3

\* the threads that call entry points; thread t drives the pass of id t
ThreadIds == {1, 2}

\* crate::device::MAX_VERTEX_BUFFERS, reduced
MAX_VERTEX_BUFFERS == 2

\* cmb.features.max_bind_groups, reduced
max_bind_groups == 2

\* crate::device::BIND_BUFFER_ALIGNMENT, reduced
BIND_BUFFER_ALIGNMENT == 4

----------------------------------------------------------------------------
(* Machine arithmetic *)

U64Bits == U32Bits + 3

U32_MOD == 2 ^ U32Bits

U64_MOD == 2 ^ U64Bits

\* u32::MAX, also written !0
U32_MAX == U32_MOD - 1

\* i16::MAX on the reduced width
I16_MAX == 2 ^ (U32Bits - 2) - 1

\* i16::MIN on the reduced width
I16_MIN == 0 - I16_MAX - 1

\* `x as u32`
AsU32(x) == x % U32_MOD

\* wrapping u64 subtraction (release build)
WrappingSubU64(a, b) == (a - b + U64_MOD) % U64_MOD

\* wrapping u32 addition (release build)
WrappingAddU32(a, b) == (a + b) % U32_MOD

Min(a, b) == IF a <= b THEN a ELSE b

RECURSIVE Shr(_, _)
\* x >> n
Shr(x, n) == IF n = 0 THEN x ELSE Shr(x \div 2, n - 1)

Last(s) == s[Len(s)]

\* Option<T>: None is the empty tuple
None == <<>>

----------------------------------------------------------------------------
(* The hub: the objects the commands name.  They are created elsewhere and *)
(* are not changed by a pass.                                              *)

BufferIds == {1, 2, 3}

\* hub.buffers: size and usage of each buffer
buffer_guard ==
    [id \in BufferIds |->
        CASE id = 1 -> [size |-> 8, usage |-> {"INDEX", "VERTEX", "INDIRECT"}]
          [] id = 2 -> [size |-> 4 * U32_MOD, usage |-> {"INDEX", "VERTEX"}]
          [] id = 3 -> [size |-> 8, usage |-> {"COPY_SRC"}]]

BindGroupLayoutIds == {1, 2}

BindGroupIds == {1, 2}

\* hub.bind_groups: layout, number of dynamic offsets, buffers used
bind_group_guard ==
    [id \in BindGroupIds |->
        CASE id = 1 -> [layout_id |-> 1, dynamic_count |-> 0,
                        used |-> {<<1, "UNIFORM">>}]
          [] id = 2 -> [layout_id |-> 2, dynamic_count |-> 1,
                        used |-> {<<2, "UNIFORM">>}]]

PipelineLayoutIds == {1, 2, 3, 4}

\* hub.pipeline_layouts
pipeline_layout_guard ==
    [id \in PipelineLayoutIds |->
        CASE id = 1 -> [bind_group_layout_ids |-> <<>>]
          [] id = 2 -> [bind_group_layout_ids |-> <<1>>]
          [] id = 3 -> [bind_group_layout_ids |-> <<2, 1>>]
          [] id = 4 -> [bind_group_layout_ids |-> <<1, 2>>]]

\* RenderPassContext of the pass the model records: one color format
PassContext == [colors |-> <<"Rgba8Unorm">>, resolves |-> <<>>, depth_stencil |-> None]

RenderPipelineIds == {1, 2, 3, 4, 5, 6}

\* hub.render_pipelines
pipeline_guard ==
    [id \in RenderPipelineIds |->
        CASE id = 1 -> [flags |-> {}, layout_id |-> 1, index_format |-> "Uint16",
                        vertex_strides |-> <<>>,
                        pass_context |-> PassContext, sample_count |-> 1]
          [] id = 2 -> [flags |-> {"BLEND_COLOR"}, layout_id |-> 2,
                        index_format |-> "Uint32",
                        vertex_strides |-> <<<<2, "Vertex">>, <<1, "Instance">>>>,
                        pass_context |-> PassContext, sample_count |-> 1]
          [] id = 3 -> [flags |-> {"STENCIL_REFERENCE"}, layout_id |-> 3,
                        index_format |-> "Uint16",
                        vertex_strides |-> <<<<1, "Vertex">>>>,
                        pass_context |-> PassContext, sample_count |-> 1]
          [] id = 4 -> [flags |-> {}, layout_id |-> 1, index_format |-> "Uint16",
                        vertex_strides |-> <<>>,
                        pass_context |-> PassContext, sample_count |-> 4]
          [] id = 5 -> [flags |-> {}, layout_id |-> 1, index_format |-> "Uint16",
                        vertex_strides |-> <<>>,
                        pass_context |-> [PassContext EXCEPT !.colors = <<"Bgra8Unorm">>],
                        sample_count |-> 1]
          [] id = 6 -> [flags |-> {}, layout_id |-> 4, index_format |-> "Uint16",
                        vertex_strides |-> <<>>,
                        pass_context |-> PassContext, sample_count |-> 1]]

\* RenderPassContext::compatible: elementwise format equality
compatible(a, b) == a = b

----------------------------------------------------------------------------
(* Binder (command/bind.rs): per slot, the layout the pipeline expects and  *)
(* the bind group provided, with its dynamic offsets.                      *)

Some(x) == <<x>>

BindGroupEntry_default ==
    [expected_layout_id |-> None, provided |-> None, dynamic_offsets |-> <<>>]

\* Binder::new
Binder_new(n) ==
    [pipeline_layout_id |-> None,
     entries |-> [i \in 1 .. n |-> BindGroupEntry_default]]

\* BindGroupEntry::is_valid: an expectation is met by a group of that layout
is_valid(entry) ==
    \/ entry.expected_layout_id = None
    \/ /\ entry.provided # None
       /\ entry.provided[1] = entry.expected_layout_id[1]

\* BindGroupEntry::actual_value: the group bound at a slot that is expected
\* and satisfied, with its offsets
actual_value(entry) ==
    IF /\ entry.expected_layout_id # None
       /\ entry.provided # None
       /\ entry.provided[1] = entry.expected_layout_id[1]
    THEN Some(<<entry.provided[2], entry.dynamic_offsets>>)
    ELSE None

\* Binder::invalid_mask: the set of the bits that are set (slot numbers from 0)
invalid_mask(binder) ==
    {i \in 0 .. Len(binder.entries) - 1 : ~is_valid(binder.entries[i + 1])}

\* u8::trailing_zeros of a nonzero mask
trailing_zeros(mask) == CHOOSE i \in mask : \A j \in mask : i <= j

\* Binder::compatible_count: the first invalid slot, or the number of slots
compatible_count(binder) ==
    IF invalid_mask(binder) = {}
    THEN Len(binder.entries)
    ELSE trailing_zeros(invalid_mask(binder))

\* Binder::reset_expectations: slots from `length` on expect nothing
reset_expectations(binder, length) ==
    [binder EXCEPT !.entries =
        [i \in 1 .. Len(binder.entries) |->
            IF i > length
            THEN [binder.entries[i] EXCEPT !.expected_layout_id = None]
            ELSE binder.entries[i]]]

\* BindGroupEntry::expect_layout: the entry afterwards and the LayoutChange
expect_layout(entry, bgl_id) ==
    IF entry.expected_layout_id # Some(bgl_id)
    THEN [entry |-> [entry EXCEPT !.expected_layout_id = Some(bgl_id)],
          change |->
            IF entry.provided # None /\ entry.provided[1] = bgl_id
            THEN <<"Match", entry.provided[2], entry.dynamic_offsets>>
            ELSE <<"Mismatch">>]
    ELSE [entry |-> entry, change |-> <<"Unchanged">>]

\* BindGroupEntry::provide: the entry afterwards and the Provision
provide(entry, bind_group_id, offsets) ==
    IF /\ entry.provided # None
       /\ entry.provided[2] = bind_group_id
       /\ offsets = entry.dynamic_offsets
    THEN [entry |-> entry, changed |-> FALSE, was_compatible |-> FALSE]
    ELSE [entry |-> [entry EXCEPT
                        !.provided = <<bind_group_guard[bind_group_id].layout_id,
                                       bind_group_id>>,
                        !.dynamic_offsets = offsets],
          changed |-> TRUE,
          was_compatible |-> /\ entry.provided # None
                             /\ entry.expected_layout_id = Some(entry.provided[1])]

RECURSIVE TakeSome(_, _, _)
\* the groups at slots from .. end-1, up to the first slot without a value
TakeSome(entries, from, end) ==
    IF from >= end \/ actual_value(entries[from + 1]) = None
    THEN <<>>
    ELSE <<actual_value(entries[from + 1])[1]>> \o TakeSome(entries, from + 1, end)

\* Binder::provide_entry: the binder afterwards and, when the group is to be
\* bound now, the pipeline layout and the follow-up (group, offsets) pairs
provide_entry(binder, index, bind_group_id, offsets) ==
    LET p == provide(binder.entries[index + 1], bind_group_id, offsets)
        b == [binder EXCEPT !.entries[index + 1] = p.entry]
        count == compatible_count(b)
        end == Min(count, IF p.was_compatible THEN index + 1 ELSE Len(b.entries))
    IN  [binder |-> b,
         result |->
            IF p.changed /\ index < count /\ b.pipeline_layout_id # None
            THEN Some(<<b.pipeline_layout_id[1], TakeSome(b.entries, index + 1, end)>>)
            ELSE None]

RECURSIVE Concat(_)
\* the concatenation of a sequence of sequences
Concat(ss) == IF ss = <<>> THEN <<>> ELSE Head(ss) \o Concat(Tail(ss))

----------------------------------------------------------------------------
(* Resource trackers (track::TrackerSet), by their interface: the set of   *)
(* (kind, id, usage) a tracker set holds.                                  *)

\* TrackerSet::new: per-kind trackers.  buffers holds (id, usage), textures
\* holds [id, first, last], views and bind_groups hold ids.
TrackerSet_new == [buffers |-> {}, textures |-> {}, views |-> {}, bind_groups |-> {}]

\* Tracker::use_extend on the tracker of the kind
use_extend(trackers, kind, id, usage) ==
    IF kind = "buffer"
    THEN [trackers EXCEPT !.buffers = @ \cup {<<id, usage>>}]
    ELSE IF kind = "bind_group"
    THEN [trackers EXCEPT !.bind_groups = @ \cup {id}]
    ELSE [trackers EXCEPT !.views = @ \cup {id}]

\* TextureTracker::merge_extend / merge_replace: a texture the base tracks
\* keeps its first usage and takes the other's last one
MergeTextures(base, other) ==
    {IF \E o \in other : o.id = t.id
     THEN [t EXCEPT !.last = (CHOOSE o \in other : o.id = t.id).last]
     ELSE t : t \in base}
    \cup {o \in other : ~\E t \in base : t.id = o.id}

\* TrackerSet::merge_extend
merge_extend(trackers, other) ==
    [buffers |-> trackers.buffers \cup other.buffers,
     textures |-> MergeTextures(trackers.textures, other.textures),
     views |-> trackers.views \cup other.views,
     bind_groups |-> trackers.bind_groups \cup other.bind_groups]

\* CommandBuffer::insert_barriers: the base trackers take over the head's uses
insert_barriers(base, head) ==
    [buffers |-> base.buffers \cup head.buffers,
     textures |-> MergeTextures(base.textures, head.textures),
     views |-> base.views \cup head.views,
     bind_groups |-> base.bind_groups \cup head.bind_groups]

----------------------------------------------------------------------------
(* OptionalState, IndexState, VertexState                                  *)

\* OptionalState::require made to follow the flag of the pipeline
OptionalState_require_Follow(self, require) ==
    IF require THEN "Required" ELSE "Unused"

\* OptionalState::require
OptionalState_require(self, require) ==
    IF require /\ self = "Unused" THEN "Required" ELSE self

\* shift of an index format in IndexState::update_limit
IndexShift(format) == IF format = "Uint16" THEN 1 ELSE 2

\* `range.end - range.start` of IndexState::update_limit overflows
IndexState_range_underflows(self) ==
    /\ self.bound_buffer_view # None
    /\ self.bound_buffer_view[3] < self.bound_buffer_view[2]

\* IndexState::update_limit (the subtraction wraps: a build with overflow
\* checks panics instead, see the handlers)
IndexState_update_limit(self) ==
    [self EXCEPT !.limit =
        IF self.bound_buffer_view = None
        THEN 0
        ELSE AsU32(Shr(WrappingSubU64(self.bound_buffer_view[3],
                                      self.bound_buffer_view[2]),
                       IndexShift(self.format)))]

\* VertexBufferState::EMPTY
VertexBufferState_EMPTY == [total_size |-> 0, stride |-> 0, rate |-> "Vertex"]

\* VertexState::update_limits that leaves the limits as they are
VertexState_update_limits_Stale(self) == self

\* VertexState::update_limits
VertexState_update_limits(self) ==
    LET n == Len(self.inputs)
        acc[i \in 0 .. n] ==
            IF i = 0 THEN <<U32_MAX, U32_MAX>>
            ELSE LET vbs == self.inputs[i]
                     limit == AsU32(vbs.total_size \div vbs.stride)
                 IN  IF vbs.stride = 0 THEN acc[i - 1]
                     ELSE IF vbs.rate = "Vertex"
                          THEN <<Min(acc[i - 1][1], limit), acc[i - 1][2]>>
                          ELSE <<acc[i - 1][1], Min(acc[i - 1][2], limit)>>
    IN  [self EXCEPT !.vertex_limit = acc[n][1], !.instance_limit = acc[n][2]]

\* State::is_ready without its stencil reference check
State_is_ready_NoStencil(self) ==
    LET bind_mask == invalid_mask(self.binder)
    IN  IF bind_mask # {}
        THEN <<"IncompatibleBindGroup", trailing_zeros(bind_mask)>>
        ELSE IF self.blend_color = "Required"
             THEN <<"MissingBlendColor">>
             ELSE <<"Ok">>

\* State::is_ready with the blend color checked before the bind groups
State_is_ready_BlendFirst(self) ==
    LET bind_mask == invalid_mask(self.binder)
    IN  IF self.blend_color = "Required"
        THEN <<"MissingBlendColor">>
        ELSE IF bind_mask # {}
             THEN <<"IncompatibleBindGroup", trailing_zeros(bind_mask)>>
             ELSE IF self.stencil_reference = "Required"
                  THEN <<"MissingStencilReference">>
                  ELSE <<"Ok">>

\* State::is_ready (encoded form)
State_is_ready(self) ==
    LET bind_mask == invalid_mask(self.binder)
    IN  IF bind_mask # {}
        THEN <<"IncompatibleBindGroup", trailing_zeros(bind_mask)>>
        ELSE IF self.blend_color = "Required"
             THEN <<"MissingBlendColor">>
             ELSE IF self.stencil_reference = "Required"
                  THEN <<"MissingStencilReference">>
                  ELSE <<"Ok">>

\* RenderPass::is_ready (incremental form)
RenderPass_is_ready(self) ==
    LET bind_mask == invalid_mask(self.binder)
    IN  IF bind_mask # {}
        THEN <<"IncompatibleBindGroup", trailing_zeros(bind_mask)>>
        ELSE IF self.blend_color_status = "Required"
             THEN <<"MissingBlendColor">>
             ELSE IF self.stencil_reference_status = "Required"
                  THEN <<"MissingStencilReference">>
                  ELSE <<"Ok">>

\* RenderPass::new
RenderPass_new(raw, context, trackers, sample_count, max_groups) ==
    [raw |-> raw,
     context |-> context,
     binder |-> Binder_new(max_groups),
     trackers |-> trackers,
     blend_color_status |-> "Unused",
     stencil_reference_status |-> "Unused",
     index_state |-> [bound_buffer_view |-> None, format |-> "Uint16", limit |-> 0],
     vertex_state |-> [inputs |-> [i \in 1 .. MAX_VERTEX_BUFFERS |-> VertexBufferState_EMPTY],
                       vertex_limit |-> 0,
                       instance_limit |-> 0],
     sample_count |-> sample_count]

\* the `State` command_encoder_run_render_pass starts its command loop with
State_new(max_groups) ==
    [binder |-> Binder_new(max_groups),
     blend_color |-> "Unused",
     stencil_reference |-> "Unused",
     index |-> [bound_buffer_view |-> None, format |-> "Uint16", limit |-> 0],
     vertex |-> [inputs |-> [i \in 1 .. MAX_VERTEX_BUFFERS |-> VertexBufferState_EMPTY],
                 vertex_limit |-> 0,
                 instance_limit |-> 0]]

----------------------------------------------------------------------------
(* Helpers of the handlers                                                 *)

\* a panic: the form stops with the state it had reached
Panic(form, err) == [form EXCEPT !.pc = "failed", !.error = err]

\* a call on the backend command buffer
Call(op, args) == [op |-> op, args |-> args]

\* conv::map_index_format: the width of the backend index type
map_index_format(format) == IF format = "Uint16" THEN 16 ELSE 32

\* `pass.offsets`, the dynamic-offset pool of a StandaloneRenderPass
PassOffsets == <<BIND_BUFFER_ALIGNMENT, 1>>

\* `off as DescriptorSetOffset` on every offset
AsDescriptorSetOffsets(offsets) == [k \in 1 .. Len(offsets) |-> AsU32(offsets[k])]

\* some offset is not a multiple of BIND_BUFFER_ALIGNMENT
Misaligned(offsets) ==
    \E k \in 1 .. Len(offsets) : offsets[k] % BIND_BUFFER_ALIGNMENT # 0

\* the arguments of bind_graphics_descriptor_sets for the group alone
DescriptorSetArgs_NoFollowUps(layout_id, index, bind_group_id, offsets, follow_ups) ==
    <<layout_id, index, 1, bind_group_id>> \o AsDescriptorSetOffsets(offsets)

\* the arguments of bind_graphics_descriptor_sets for a group and its follow-ups
DescriptorSetArgs(layout_id, index, bind_group_id, offsets, follow_ups) ==
    <<layout_id, index, 1 + Len(follow_ups)>>
        \o <<bind_group_id>>
        \o [k \in 1 .. Len(follow_ups) |-> follow_ups[k][1]]
        \o AsDescriptorSetOffsets(
              offsets \o Concat([k \in 1 .. Len(follow_ups) |-> follow_ups[k][2]]))

\* f32::round, on a value given in halves: half-way cases away from zero
RoundHalves(h) == IF h >= 0 THEN (h + 1) \div 2 ELSE 0 - ((1 - h) \div 2)

\* i16::try_from(v).unwrap_or(default)
I16TryFromOr(v, default) == IF I16_MIN <= v /\ v <= I16_MAX THEN v ELSE default

----------------------------------------------------------------------------
(* The command loop of command_encoder_run_render_pass: one operator per   *)
(* arm of the match, on e = [pc, error, context, sample_count, state,      *)
(* trackers, raw, cmb].                                                    *)

\* RenderCommand::SetBindGroup without the check of the offsets' alignment
Enc_SetBindGroup_NoAlignment(e, index, bind_group_id, offset_indices) ==
    LET offsets == SubSeq(PassOffsets, offset_indices[1] + 1, offset_indices[2])
        bind_group == bind_group_guard[bind_group_id]
        t1 == use_extend(e.trackers, "bind_group", bind_group_id, "BOUND")
        t2 == merge_extend(t1, [TrackerSet_new EXCEPT !.buffers = bind_group.used])
        p == provide_entry(e.state.binder, index, bind_group_id, offsets)
        e2 == [e EXCEPT !.trackers = t2, !.state.binder = p.binder]
    IN  IF bind_group.dynamic_count # Len(offsets)
        THEN Panic([e EXCEPT !.trackers = t1], <<"DynamicCountMismatch">>)
        ELSE IF index >= Len(e.state.binder.entries)
        THEN Panic([e EXCEPT !.trackers = t2], <<"IndexOutOfBounds">>)
        ELSE IF p.result = None
        THEN e2
        ELSE [e2 EXCEPT !.raw = Append(@,
                Call("bind_graphics_descriptor_sets",
                     DescriptorSetArgs(p.result[1][1], index, bind_group_id,
                                       offsets, p.result[1][2])))]

\* RenderCommand::SetBindGroup
Enc_SetBindGroup(e, index, bind_group_id, offset_indices) ==
    LET offsets == SubSeq(PassOffsets, offset_indices[1] + 1, offset_indices[2])
        bind_group == bind_group_guard[bind_group_id]
        t1 == use_extend(e.trackers, "bind_group", bind_group_id, "BOUND")
        t2 == merge_extend(t1, [TrackerSet_new EXCEPT !.buffers = bind_group.used])
        p == provide_entry(e.state.binder, index, bind_group_id, offsets)
        e2 == [e EXCEPT !.trackers = t2, !.state.binder = p.binder]
    IN  IF debug_assertions /\ Misaligned(offsets)
        THEN Panic(e, <<"MisalignedDynamicOffset">>)
        ELSE IF bind_group.dynamic_count # Len(offsets)
        THEN Panic([e EXCEPT !.trackers = t1], <<"DynamicCountMismatch">>)
        ELSE IF index >= Len(e.state.binder.entries)
        THEN Panic([e EXCEPT !.trackers = t2], <<"IndexOutOfBounds">>)
        ELSE IF p.result = None
        THEN e2
        ELSE [e2 EXCEPT !.raw = Append(@,
                Call("bind_graphics_descriptor_sets",
                     DescriptorSetArgs(p.result[1][1], index, bind_group_id,
                                       offsets, p.result[1][2])))]

\* the slot walk of RenderCommand::SetPipeline binding every slot that matches,
\* also after a slot that did not
Enc_RebindResources_EveryMatch(entries, bgl_ids, layout_id, raw) ==
    LET n == Min(Len(entries), Len(bgl_ids))
        walk[i \in 0 .. n] ==
            IF i = 0
            THEN [entries |-> entries, raw |-> raw, is_compatible |-> TRUE]
            ELSE LET acc == walk[i - 1]
                     r == expect_layout(acc.entries[i], bgl_ids[i])
                     ents == [acc.entries EXCEPT ![i] = r.entry]
                 IN  IF r.change[1] = "Match"
                     THEN [acc EXCEPT !.entries = ents,
                                      !.raw = Append(@,
                                         Call("bind_graphics_descriptor_sets",
                                              <<layout_id, i - 1, 1, r.change[2]>>
                                                \o AsDescriptorSetOffsets(r.change[3])))]
                     ELSE IF r.change[1] = "Mismatch"
                          THEN [acc EXCEPT !.entries = ents, !.is_compatible = FALSE]
                          ELSE [acc EXCEPT !.entries = ents]
    IN  walk[n]

\* the slot walk of RenderCommand::SetPipeline ("Rebind resource")
Enc_RebindResources(entries, bgl_ids, layout_id, raw) ==
    LET n == Min(Len(entries), Len(bgl_ids))
        walk[i \in 0 .. n] ==
            IF i = 0
            THEN [entries |-> entries, raw |-> raw, is_compatible |-> TRUE]
            ELSE LET acc == walk[i - 1]
                     r == expect_layout(acc.entries[i], bgl_ids[i])
                     ents == [acc.entries EXCEPT ![i] = r.entry]
                 IN  IF r.change[1] = "Match" /\ acc.is_compatible
                     THEN [acc EXCEPT !.entries = ents,
                                      !.raw = Append(@,
                                         Call("bind_graphics_descriptor_sets",
                                              <<layout_id, i - 1, 1, r.change[2]>>
                                                \o AsDescriptorSetOffsets(r.change[3])))]
                     ELSE IF r.change[1] = "Mismatch"
                          THEN [acc EXCEPT !.entries = ents, !.is_compatible = FALSE]
                          ELSE [acc EXCEPT !.entries = ents]
    IN  walk[n]

\* RenderCommand::SetPipeline without the two assertions on the pass context
\* and the sample count
Enc_SetPipeline_Unchecked(e, pipeline_id) ==
    LET pipeline == pipeline_guard[pipeline_id]
        s1 == [e.state EXCEPT
                !.blend_color =
                    OptionalState_require(@, "BLEND_COLOR" \in pipeline.flags),
                !.stencil_reference =
                    OptionalState_require(@, "STENCIL_REFERENCE" \in pipeline.flags)]
        raw1 == Append(e.raw, Call("bind_graphics_pipeline", <<pipeline_id>>))
        \* Rebind resource
        layout_changed == s1.binder.pipeline_layout_id # Some(pipeline.layout_id)
        bgl_ids == pipeline_layout_guard[pipeline.layout_id].bind_group_layout_ids
        b1 == reset_expectations(
                [s1.binder EXCEPT !.pipeline_layout_id = Some(pipeline.layout_id)],
                Len(bgl_ids))
        walk == Enc_RebindResources(b1.entries, bgl_ids, pipeline.layout_id, raw1)
        s2 == IF layout_changed
              THEN [s1 EXCEPT !.binder = [b1 EXCEPT !.entries = walk.entries]]
              ELSE s1
        raw2 == IF layout_changed THEN walk.raw ELSE raw1
        \* Rebind index buffer if the index format has changed
        format_changed == s2.index.format # pipeline.index_format
        idx1 == [s2.index EXCEPT !.format = pipeline.index_format]
        idx2 == IndexState_update_limit(idx1)
        rebind == format_changed /\ idx2.bound_buffer_view # None
        s3 == IF format_changed THEN [s2 EXCEPT !.index = idx2] ELSE s2
        t3 == IF rebind
              THEN use_extend(e.trackers, "buffer", idx2.bound_buffer_view[1], "INDEX")
              ELSE e.trackers
        raw3 == IF rebind
                THEN Append(raw2, Call("bind_index_buffer",
                        <<idx2.bound_buffer_view[1], idx2.bound_buffer_view[2],
                          map_index_format(idx2.format)>>))
                ELSE raw2
        \* Update vertex buffer limits
        n == Len(pipeline.vertex_strides)
        inputs == [i \in 1 .. MAX_VERTEX_BUFFERS |->
                    IF i <= n
                    THEN [s3.vertex.inputs[i] EXCEPT
                            !.stride = pipeline.vertex_strides[i][1],
                            !.rate = pipeline.vertex_strides[i][2]]
                    ELSE [s3.vertex.inputs[i] EXCEPT !.stride = 0, !.rate = "Vertex"]]
        s4 == [s3 EXCEPT !.vertex =
                 VertexState_update_limits([s3.vertex EXCEPT !.inputs = inputs])]
    IN  IF format_changed /\ debug_assertions /\ IndexState_range_underflows(idx1)
        THEN Panic([e EXCEPT !.state = [s2 EXCEPT !.index = idx1], !.raw = raw2],
                   <<"ArithmeticOverflow">>)
        ELSE IF n > MAX_VERTEX_BUFFERS
        THEN Panic([e EXCEPT !.state = s3, !.raw = raw3, !.trackers = t3],
                   <<"IndexOutOfBounds">>)
        ELSE [e EXCEPT !.state = s4, !.raw = raw3, !.trackers = t3]

\* RenderCommand::SetPipeline with the index buffer bound again at offset 0
Enc_SetPipeline_RebindAtZero(e, pipeline_id) ==
    LET pipeline == pipeline_guard[pipeline_id]
        s1 == [e.state EXCEPT
                !.blend_color =
                    OptionalState_require(@, "BLEND_COLOR" \in pipeline.flags),
                !.stencil_reference =
                    OptionalState_require(@, "STENCIL_REFERENCE" \in pipeline.flags)]
        raw1 == Append(e.raw, Call("bind_graphics_pipeline", <<pipeline_id>>))
        \* Rebind resource
        layout_changed == s1.binder.pipeline_layout_id # Some(pipeline.layout_id)
        bgl_ids == pipeline_layout_guard[pipeline.layout_id].bind_group_layout_ids
        b1 == reset_expectations(
                [s1.binder EXCEPT !.pipeline_layout_id = Some(pipeline.layout_id)],
                Len(bgl_ids))
        walk == Enc_RebindResources(b1.entries, bgl_ids, pipeline.layout_id, raw1)
        s2 == IF layout_changed
              THEN [s1 EXCEPT !.binder = [b1 EXCEPT !.entries = walk.entries]]
              ELSE s1
        raw2 == IF layout_changed THEN walk.raw ELSE raw1
        \* Rebind index buffer if the index format has changed
        format_changed == s2.index.format # pipeline.index_format
        idx1 == [s2.index EXCEPT !.format = pipeline.index_format]
        idx2 == IndexState_update_limit(idx1)
        rebind == format_changed /\ idx2.bound_buffer_view # None
        s3 == IF format_changed THEN [s2 EXCEPT !.index = idx2] ELSE s2
        t3 == IF rebind
              THEN use_extend(e.trackers, "buffer", idx2.bound_buffer_view[1], "INDEX")
              ELSE e.trackers
        raw3 == IF rebind
                THEN Append(raw2, Call("bind_index_buffer",
                        <<idx2.bound_buffer_view[1], 0,
                          map_index_format(idx2.format)>>))
                ELSE raw2
        \* Update vertex buffer limits
        n == Len(pipeline.vertex_strides)
        inputs == [i \in 1 .. MAX_VERTEX_BUFFERS |->
                    IF i <= n
                    THEN [s3.vertex.inputs[i] EXCEPT
                            !.stride = pipeline.vertex_strides[i][1],
                            !.rate = pipeline.vertex_strides[i][2]]
                    ELSE [s3.vertex.inputs[i] EXCEPT !.stride = 0, !.rate = "Vertex"]]
        s4 == [s3 EXCEPT !.vertex =
                 VertexState_update_limits([s3.vertex EXCEPT !.inputs = inputs])]
    IN  IF ~compatible(e.context, pipeline.pass_context)
        THEN Panic(e, <<"PassContextIncompatible">>)
        ELSE IF pipeline.sample_count # e.sample_count
        THEN Panic(e, <<"AttachmentSampleCountMismatch">>)
        ELSE IF format_changed /\ debug_assertions /\ IndexState_range_underflows(idx1)
        THEN Panic([e EXCEPT !.state = [s2 EXCEPT !.index = idx1], !.raw = raw2],
                   <<"ArithmeticOverflow">>)
        ELSE IF n > MAX_VERTEX_BUFFERS
        THEN Panic([e EXCEPT !.state = s3, !.raw = raw3, !.trackers = t3],
                   <<"IndexOutOfBounds">>)
        ELSE [e EXCEPT !.state = s4, !.raw = raw3, !.trackers = t3]

\* RenderCommand::SetPipeline
Enc_SetPipeline(e, pipeline_id) ==
    LET pipeline == pipeline_guard[pipeline_id]
        s1 == [e.state EXCEPT
                !.blend_color =
                    OptionalState_require(@, "BLEND_COLOR" \in pipeline.flags),
                !.stencil_reference =
                    OptionalState_require(@, "STENCIL_REFERENCE" \in pipeline.flags)]
        raw1 == Append(e.raw, Call("bind_graphics_pipeline", <<pipeline_id>>))
        \* Rebind resource
        layout_changed == s1.binder.pipeline_layout_id # Some(pipeline.layout_id)
        bgl_ids == pipeline_layout_guard[pipeline.layout_id].bind_group_layout_ids
        b1 == reset_expectations(
                [s1.binder EXCEPT !.pipeline_layout_id = Some(pipeline.layout_id)],
                Len(bgl_ids))
        walk == Enc_RebindResources(b1.entries, bgl_ids, pipeline.layout_id, raw1)
        s2 == IF layout_changed
              THEN [s1 EXCEPT !.binder = [b1 EXCEPT !.entries = walk.entries]]
              ELSE s1
        raw2 == IF layout_changed THEN walk.raw ELSE raw1
        \* Rebind index buffer if the index format has changed
        format_changed == s2.index.format # pipeline.index_format
        idx1 == [s2.index EXCEPT !.format = pipeline.index_format]
        idx2 == IndexState_update_limit(idx1)
        rebind == format_changed /\ idx2.bound_buffer_view # None
        s3 == IF format_changed THEN [s2 EXCEPT !.index = idx2] ELSE s2
        t3 == IF rebind
              THEN use_extend(e.trackers, "buffer", idx2.bound_buffer_view[1], "INDEX")
              ELSE e.trackers
        raw3 == IF rebind
                THEN Append(raw2, Call("bind_index_buffer",
                        <<idx2.bound_buffer_view[1], idx2.bound_buffer_view[2],
                          map_index_format(idx2.format)>>))
                ELSE raw2
        \* Update vertex buffer limits
        n == Len(pipeline.vertex_strides)
        inputs == [i \in 1 .. MAX_VERTEX_BUFFERS |->
                    IF i <= n
                    THEN [s3.vertex.inputs[i] EXCEPT
                            !.stride = pipeline.vertex_strides[i][1],
                            !.rate = pipeline.vertex_strides[i][2]]
                    ELSE [s3.vertex.inputs[i] EXCEPT !.stride = 0, !.rate = "Vertex"]]
        s4 == [s3 EXCEPT !.vertex =
                 VertexState_update_limits([s3.vertex EXCEPT !.inputs = inputs])]
    IN  IF ~compatible(e.context, pipeline.pass_context)
        THEN Panic(e, <<"PassContextIncompatible">>)
        ELSE IF pipeline.sample_count # e.sample_count
        THEN Panic(e, <<"AttachmentSampleCountMismatch">>)
        ELSE IF format_changed /\ debug_assertions /\ IndexState_range_underflows(idx1)
        THEN Panic([e EXCEPT !.state = [s2 EXCEPT !.index = idx1], !.raw = raw2],
                   <<"ArithmeticOverflow">>)
        ELSE IF n > MAX_VERTEX_BUFFERS
        THEN Panic([e EXCEPT !.state = s3, !.raw = raw3, !.trackers = t3],
                   <<"IndexOutOfBounds">>)
        ELSE [e EXCEPT !.state = s4, !.raw = raw3, !.trackers = t3]

\* RenderCommand::SetIndexBuffer
Enc_SetIndexBuffer(e, buffer_id, offset) ==
    LET buffer == buffer_guard[buffer_id]
        t1 == use_extend(e.trackers, "buffer", buffer_id, "INDEX")
        idx1 == [e.state.index EXCEPT
                    !.bound_buffer_view = <<buffer_id, offset, buffer.size>>]
        idx2 == IndexState_update_limit(idx1)
    IN  IF "INDEX" \notin buffer.usage
        THEN Panic([e EXCEPT !.trackers = t1], <<"UsageBitMissing", "INDEX">>)
        ELSE IF debug_assertions /\ IndexState_range_underflows(idx1)
        THEN Panic([e EXCEPT !.trackers = t1, !.state.index = idx1],
                   <<"ArithmeticOverflow">>)
        ELSE [e EXCEPT !.trackers = t1,
                       !.state.index = idx2,
                       !.raw = Append(@, Call("bind_index_buffer",
                                <<buffer_id, offset, map_index_format(idx2.format)>>))]

\* RenderCommand::SetVertexBuffer
Enc_SetVertexBuffer(e, index, buffer_id, offset) ==
    LET buffer == buffer_guard[buffer_id]
        t1 == use_extend(e.trackers, "buffer", buffer_id, "VERTEX")
        e1 == [e EXCEPT !.trackers = t1]
        v1 == [e.state.vertex EXCEPT
                !.inputs[index + 1].total_size = WrappingSubU64(buffer.size, offset)]
    IN  IF "VERTEX" \notin buffer.usage
        THEN Panic(e1, <<"UsageBitMissing", "VERTEX">>)
        ELSE IF debug_assertions /\ offset > buffer.size
        THEN Panic(e1, <<"ArithmeticOverflow">>)
        ELSE IF index >= MAX_VERTEX_BUFFERS
        THEN Panic(e1, <<"IndexOutOfBounds">>)
        ELSE [e1 EXCEPT !.state.vertex = VertexState_update_limits(v1),
                        !.raw = Append(@, Call("bind_vertex_buffers",
                                                <<index, buffer_id, offset>>))]

\* RenderCommand::SetBlendValue that marks the stencil reference as set, too
Enc_SetBlendValue_Both(e, color) ==
    [e EXCEPT !.state.blend_color = "Set",
              !.state.stencil_reference = "Set",
              !.raw = Append(@, Call("set_blend_constants", <<color>>))]

\* RenderCommand::SetBlendValue
Enc_SetBlendValue(e, color) ==
    [e EXCEPT !.state.blend_color = "Set",
              !.raw = Append(@, Call("set_blend_constants", <<color>>))]

\* RenderCommand::SetStencilReference
Enc_SetStencilReference(e, value) ==
    [e EXCEPT !.state.stencil_reference = "Set",
              !.raw = Append(@, Call("set_stencil_reference", <<value>>))]

\* RenderCommand::SetViewport (rect in halves, depth as given)
Enc_SetViewport(e, rect, depth) ==
    [e EXCEPT !.raw = Append(@, Call("set_viewports",
        <<0,
          I16TryFromOr(RoundHalves(rect[1]), 0),
          I16TryFromOr(RoundHalves(rect[2]), 0),
          I16TryFromOr(RoundHalves(rect[3]), I16_MAX),
          I16TryFromOr(RoundHalves(rect[4]), I16_MAX),
          depth[1], depth[2]>>))]

\* RenderCommand::SetScissor
Enc_SetScissor(e, rect) ==
    [e EXCEPT !.raw = Append(@, Call("set_scissors",
        <<0,
          I16TryFromOr(rect[1], 0),
          I16TryFromOr(rect[2], 0),
          I16TryFromOr(rect[3], I16_MAX),
          I16TryFromOr(rect[4], I16_MAX)>>))]

\* RenderCommand::Draw without `state.is_ready().unwrap()`
Enc_Draw_Unchecked(e, vertex_count, instance_count, first_vertex, first_instance) ==
    [e EXCEPT !.raw = Append(@, Call("draw",
        <<first_vertex, WrappingAddU32(first_vertex, vertex_count),
          first_instance, WrappingAddU32(first_instance, instance_count)>>))]

\* RenderCommand::Draw
Enc_Draw(e, vertex_count, instance_count, first_vertex, first_instance) ==
    LET ready == State_is_ready(e.state)
        vertex_end == WrappingAddU32(first_vertex, vertex_count)
        instance_end == WrappingAddU32(first_instance, instance_count)
    IN  IF ready # <<"Ok">>
        THEN Panic(e, ready)
        ELSE IF debug_assertions /\ first_vertex + vertex_count > U32_MAX
        THEN Panic(e, <<"ArithmeticOverflow">>)
        ELSE IF ~(vertex_end <= e.state.vertex.vertex_limit)
        THEN Panic(e, <<"Vertex out of range!">>)
        ELSE IF debug_assertions /\ first_instance + instance_count > U32_MAX
        THEN Panic(e, <<"ArithmeticOverflow">>)
        ELSE IF ~(instance_end <= e.state.vertex.instance_limit)
        THEN Panic(e, <<"Instance out of range!">>)
        ELSE [e EXCEPT !.raw = Append(@, Call("draw",
                <<first_vertex, vertex_end, first_instance, instance_end>>))]

\* RenderCommand::DrawIndexed
Enc_DrawIndexed(e, index_count, instance_count, first_index, base_vertex, first_instance) ==
    LET ready == State_is_ready(e.state)
        index_end == WrappingAddU32(first_index, index_count)
        instance_end == WrappingAddU32(first_instance, instance_count)
    IN  IF ready # <<"Ok">>
        THEN Panic(e, ready)
        ELSE IF debug_assertions /\ first_index + index_count > U32_MAX
        THEN Panic(e, <<"ArithmeticOverflow">>)
        ELSE IF ~(index_end <= e.state.index.limit)
        THEN Panic(e, <<"Index out of range!">>)
        ELSE IF debug_assertions /\ first_instance + instance_count > U32_MAX
        THEN Panic(e, <<"ArithmeticOverflow">>)
        ELSE IF ~(instance_end <= e.state.vertex.instance_limit)
        THEN Panic(e, <<"Instance out of range!">>)
        ELSE [e EXCEPT !.raw = Append(@, Call("draw_indexed",
                <<first_index, index_end, base_vertex, first_instance, instance_end>>))]

\* RenderCommand::DrawIndirect
Enc_DrawIndirect(e, buffer_id, offset) ==
    LET ready == State_is_ready(e.state)
        buffer == buffer_guard[buffer_id]
        e1 == [e EXCEPT !.trackers = use_extend(@, "buffer", buffer_id, "INDIRECT")]
    IN  IF ready # <<"Ok">>
        THEN Panic(e, ready)
        ELSE IF "INDIRECT" \notin buffer.usage
        THEN Panic(e1, <<"UsageBitMissing", "INDIRECT">>)
        ELSE [e1 EXCEPT !.raw = Append(@, Call("draw_indirect",
                                               <<buffer_id, offset, 1, 0>>))]

\* RenderCommand::DrawIndexedIndirect
Enc_DrawIndexedIndirect(e, buffer_id, offset) ==
    LET ready == State_is_ready(e.state)
        buffer == buffer_guard[buffer_id]
        e1 == [e EXCEPT !.trackers = use_extend(@, "buffer", buffer_id, "INDIRECT")]
    IN  IF ready # <<"Ok">>
        THEN Panic(e, ready)
        ELSE IF "INDIRECT" \notin buffer.usage
        THEN Panic(e1, <<"UsageBitMissing", "INDIRECT">>)
        ELSE [e1 EXCEPT !.raw = Append(@, Call("draw_indexed_indirect",
                                               <<buffer_id, offset, 1, 0>>))]

----------------------------------------------------------------------------
(* The incremental entry points render_pass_*: one operator per entry      *)
(* point, on i = [pc, error, pass, cmb], pass being the RenderPass that    *)
(* hub.render_passes holds.                                                *)

\* render_pass_set_bind_group
render_pass_set_bind_group(i, index, bind_group_id, offsets) ==
    LET bind_group == bind_group_guard[bind_group_id]
        t1 == use_extend(i.pass.trackers, "bind_group", bind_group_id, "BOUND")
        t2 == merge_extend(t1, [TrackerSet_new EXCEPT !.buffers = bind_group.used])
        p == provide_entry(i.pass.binder, index, bind_group_id, offsets)
        i2 == [i EXCEPT !.pass.trackers = t2, !.pass.binder = p.binder]
    IN  IF bind_group.dynamic_count # Len(offsets)
        THEN Panic([i EXCEPT !.pass.trackers = t1], <<"DynamicCountMismatch">>)
        ELSE IF debug_assertions /\ Misaligned(offsets)
        THEN Panic([i EXCEPT !.pass.trackers = t1], <<"MisalignedDynamicOffset">>)
        ELSE IF index >= Len(i.pass.binder.entries)
        THEN Panic([i EXCEPT !.pass.trackers = t2], <<"IndexOutOfBounds">>)
        ELSE IF p.result = None
        THEN i2
        ELSE [i2 EXCEPT !.pass.raw = Append(@,
                Call("bind_graphics_descriptor_sets",
                     DescriptorSetArgs(p.result[1][1], index, bind_group_id,
                                       offsets, p.result[1][2])))]

\* render_pass_set_index_buffer
render_pass_set_index_buffer(i, buffer_id, offset) ==
    LET buffer == buffer_guard[buffer_id]
        t1 == use_extend(i.pass.trackers, "buffer", buffer_id, "INDEX")
        idx1 == [i.pass.index_state EXCEPT
                    !.bound_buffer_view = <<buffer_id, offset, buffer.size>>]
        idx2 == IndexState_update_limit(idx1)
    IN  IF "INDEX" \notin buffer.usage
        THEN Panic([i EXCEPT !.pass.trackers = t1], <<"UsageBitMissing", "INDEX">>)
        ELSE IF debug_assertions /\ IndexState_range_underflows(idx1)
        THEN Panic([i EXCEPT !.pass.trackers = t1, !.pass.index_state = idx1],
                   <<"ArithmeticOverflow">>)
        ELSE [i EXCEPT !.pass.trackers = t1,
                       !.pass.index_state = idx2,
                       !.pass.raw = Append(@, Call("bind_index_buffer",
                                <<buffer_id, offset, map_index_format(idx2.format)>>))]

\* the loop of render_pass_set_vertex_buffers over inputs[start_slot ..]
\* zipped with the buffers and offsets: the pass afterwards and the panic, if any
SetVertexBuffersLoop(pass, start_slot, buffers, offsets) ==
    LET n == Min(MAX_VERTEX_BUFFERS - start_slot, Min(Len(buffers), Len(offsets)))
        walk[k \in 0 .. n] ==
            IF k = 0
            THEN [pass |-> pass, err |-> None]
            ELSE LET acc == walk[k - 1]
                     buffer == buffer_guard[buffers[k]]
                     p1 == [acc.pass EXCEPT !.trackers =
                                use_extend(@, "buffer", buffers[k], "VERTEX")]
                 IN  IF acc.err # None
                     THEN acc
                     ELSE IF "VERTEX" \notin buffer.usage
                     THEN [pass |-> p1, err |-> <<"UsageBitMissing", "VERTEX">>]
                     ELSE IF debug_assertions /\ offsets[k] > buffer.size
                     THEN [pass |-> p1, err |-> <<"ArithmeticOverflow">>]
                     ELSE [pass |-> [p1 EXCEPT
                                !.vertex_state.inputs[start_slot + k].total_size =
                                    WrappingSubU64(buffer.size, offsets[k])],
                           err |-> None]
    IN  walk[n]

\* render_pass_set_vertex_buffers
render_pass_set_vertex_buffers(i, start_slot, buffers, offsets) ==
    LET walk == SetVertexBuffersLoop(i.pass, start_slot, buffers, offsets)
        pairs == Concat([k \in 1 .. Len(buffers) |-> <<buffers[k], offsets[k]>>])
    IN  IF Len(buffers) # Len(offsets)
        THEN Panic(i, <<"LengthMismatch">>)
        ELSE IF start_slot > MAX_VERTEX_BUFFERS
        THEN Panic(i, <<"IndexOutOfBounds">>)
        ELSE IF walk.err # None
        THEN Panic([i EXCEPT !.pass = walk.pass], walk.err)
        ELSE [i EXCEPT
                !.pass = [walk.pass EXCEPT
                            !.vertex_state = VertexState_update_limits(@),
                            !.raw = Append(@, Call("bind_vertex_buffers",
                                                   <<start_slot>> \o pairs))]]

\* render_pass_draw
render_pass_draw(i, vertex_count, instance_count, first_vertex, first_instance) ==
    LET ready == RenderPass_is_ready(i.pass)
        vertex_end == WrappingAddU32(first_vertex, vertex_count)
        instance_end == WrappingAddU32(first_instance, instance_count)
    IN  IF ready # <<"Ok">>
        THEN Panic(i, ready)
        ELSE IF debug_assertions /\ first_vertex + vertex_count > U32_MAX
        THEN Panic(i, <<"ArithmeticOverflow">>)
        ELSE IF ~(vertex_end <= i.pass.vertex_state.vertex_limit)
        THEN Panic(i, <<"Vertex out of range!">>)
        ELSE IF debug_assertions /\ first_instance + instance_count > U32_MAX
        THEN Panic(i, <<"ArithmeticOverflow">>)
        ELSE IF ~(instance_end <= i.pass.vertex_state.instance_limit)
        THEN Panic(i, <<"Instance out of range!">>)
        ELSE [i EXCEPT !.pass.raw = Append(@, Call("draw",
                <<first_vertex, vertex_end, first_instance, instance_end>>))]

\* render_pass_draw_indirect
render_pass_draw_indirect(i, indirect_buffer_id, indirect_offset) ==
    LET ready == RenderPass_is_ready(i.pass)
        buffer == buffer_guard[indirect_buffer_id]
        i1 == [i EXCEPT !.pass.trackers =
                    use_extend(@, "buffer", indirect_buffer_id, "INDIRECT")]
    IN  IF ready # <<"Ok">>
        THEN Panic(i, ready)
        ELSE IF "INDIRECT" \notin buffer.usage
        THEN Panic(i1, <<"UsageBitMissing", "INDIRECT">>)
        ELSE [i1 EXCEPT !.pass.raw = Append(@, Call("draw_indirect",
                            <<indirect_buffer_id, indirect_offset, 1, 0>>))]

\* render_pass_draw_indexed
render_pass_draw_indexed(i, index_count, instance_count, first_index, base_vertex, first_instance) ==
    LET ready == RenderPass_is_ready(i.pass)
        index_end == WrappingAddU32(first_index, index_count)
        instance_end == WrappingAddU32(first_instance, instance_count)
    IN  IF ready # <<"Ok">>
        THEN Panic(i, ready)
        ELSE IF debug_assertions /\ first_index + index_count > U32_MAX
        THEN Panic(i, <<"ArithmeticOverflow">>)
        ELSE IF ~(index_end <= i.pass.index_state.limit)
        THEN Panic(i, <<"Index out of range!">>)
        ELSE IF debug_assertions /\ first_instance + instance_count > U32_MAX
        THEN Panic(i, <<"ArithmeticOverflow">>)
        ELSE IF ~(instance_end <= i.pass.vertex_state.instance_limit)
        THEN Panic(i, <<"Instance out of range!">>)
        ELSE [i EXCEPT !.pass.raw = Append(@, Call("draw_indexed",
                <<first_index, index_end, base_vertex, first_instance, instance_end>>))]

\* render_pass_draw_indexed_indirect
render_pass_draw_indexed_indirect(i, indirect_buffer_id, indirect_offset) ==
    LET ready == RenderPass_is_ready(i.pass)
        buffer == buffer_guard[indirect_buffer_id]
        i1 == [i EXCEPT !.pass.trackers =
                    use_extend(@, "buffer", indirect_buffer_id, "INDIRECT")]
    IN  IF ready # <<"Ok">>
        THEN Panic(i, ready)
        ELSE IF "INDIRECT" \notin buffer.usage
        THEN Panic(i1, <<"UsageBitMissing", "INDIRECT">>)
        ELSE [i1 EXCEPT !.pass.raw = Append(@, Call("draw_indexed_indirect",
                            <<indirect_buffer_id, indirect_offset, 1, 0>>))]

\* the slot walk of render_pass_set_pipeline ("Rebind resource")
RebindResources(entries, bgl_ids, layout_id, raw) ==
    LET n == Min(Len(entries), Len(bgl_ids))
        walk[k \in 0 .. n] ==
            IF k = 0
            THEN [entries |-> entries, raw |-> raw, is_compatible |-> TRUE]
            ELSE LET acc == walk[k - 1]
                     r == expect_layout(acc.entries[k], bgl_ids[k])
                     ents == [acc.entries EXCEPT ![k] = r.entry]
                 IN  IF r.change[1] = "Match" /\ acc.is_compatible
                     THEN [acc EXCEPT !.entries = ents,
                                      !.raw = Append(@,
                                         Call("bind_graphics_descriptor_sets",
                                              <<layout_id, k - 1, 1, r.change[2]>>
                                                \o AsDescriptorSetOffsets(r.change[3])))]
                     ELSE IF r.change[1] = "Mismatch"
                          THEN [acc EXCEPT !.entries = ents, !.is_compatible = FALSE]
                          ELSE [acc EXCEPT !.entries = ents]
    IN  walk[n]

\* render_pass_set_pipeline
render_pass_set_pipeline(i, pipeline_id) ==
    LET pipeline == pipeline_guard[pipeline_id]
        p1 == [i.pass EXCEPT
                !.blend_color_status =
                    OptionalState_require(@, "BLEND_COLOR" \in pipeline.flags),
                !.stencil_reference_status =
                    OptionalState_require(@, "STENCIL_REFERENCE" \in pipeline.flags),
                !.raw = Append(@, Call("bind_graphics_pipeline", <<pipeline_id>>))]
        \* Rebind resource
        layout_changed == p1.binder.pipeline_layout_id # Some(pipeline.layout_id)
        bgl_ids == pipeline_layout_guard[pipeline.layout_id].bind_group_layout_ids
        b1 == reset_expectations(
                [p1.binder EXCEPT !.pipeline_layout_id = Some(pipeline.layout_id)],
                Len(bgl_ids))
        walk == RebindResources(b1.entries, bgl_ids, pipeline.layout_id, p1.raw)
        p2 == IF layout_changed
              THEN [p1 EXCEPT !.binder = [b1 EXCEPT !.entries = walk.entries],
                              !.raw = walk.raw]
              ELSE p1
        \* Rebind index buffer if the index format has changed
        format_changed == p2.index_state.format # pipeline.index_format
        idx1 == [p2.index_state EXCEPT !.format = pipeline.index_format]
        idx2 == IndexState_update_limit(idx1)
        rebind == format_changed /\ idx2.bound_buffer_view # None
        p3 == IF ~format_changed
              THEN p2
              ELSE IF ~rebind
              THEN [p2 EXCEPT !.index_state = idx2]
              ELSE [p2 EXCEPT
                      !.index_state = idx2,
                      !.trackers = use_extend(@, "buffer", idx2.bound_buffer_view[1], "INDEX"),
                      !.raw = Append(@, Call("bind_index_buffer",
                                <<idx2.bound_buffer_view[1], idx2.bound_buffer_view[2],
                                  map_index_format(idx2.format)>>))]
        \* Update vertex buffer limits
        n == Len(pipeline.vertex_strides)
        inputs == [k \in 1 .. MAX_VERTEX_BUFFERS |->
                    IF k <= n
                    THEN [p3.vertex_state.inputs[k] EXCEPT
                            !.stride = pipeline.vertex_strides[k][1],
                            !.rate = pipeline.vertex_strides[k][2]]
                    ELSE [p3.vertex_state.inputs[k] EXCEPT !.stride = 0, !.rate = "Vertex"]]
        p4 == [p3 EXCEPT !.vertex_state =
                 VertexState_update_limits([p3.vertex_state EXCEPT !.inputs = inputs])]
    IN  IF ~compatible(i.pass.context, pipeline.pass_context)
        THEN Panic(i, <<"PassContextIncompatible">>)
        ELSE IF pipeline.sample_count # i.pass.sample_count
        THEN Panic(i, <<"AttachmentSampleCountMismatch">>)
        ELSE IF format_changed /\ debug_assertions /\ IndexState_range_underflows(idx1)
        THEN Panic([i EXCEPT !.pass = [p2 EXCEPT !.index_state = idx1]],
                   <<"ArithmeticOverflow">>)
        ELSE IF n > MAX_VERTEX_BUFFERS
        THEN Panic([i EXCEPT !.pass = p3], <<"IndexOutOfBounds">>)
        ELSE [i EXCEPT !.pass = p4]

\* render_pass_set_blend_color
render_pass_set_blend_color(i, color) ==
    [i EXCEPT !.pass.blend_color_status = "Set",
              !.pass.raw = Append(@, Call("set_blend_constants", <<color>>))]

\* render_pass_set_stencil_reference
render_pass_set_stencil_reference(i, value) ==
    [i EXCEPT !.pass.stencil_reference_status = "Set",
              !.pass.raw = Append(@, Call("set_stencil_reference", <<value>>))]

\* render_pass_set_viewport (x, y, w, h in halves)
render_pass_set_viewport(i, x, y, w, h, min_depth, max_depth) ==
    [i EXCEPT !.pass.raw = Append(@, Call("set_viewports",
        <<0,
          I16TryFromOr(RoundHalves(x), 0),
          I16TryFromOr(RoundHalves(y), 0),
          I16TryFromOr(RoundHalves(w), I16_MAX),
          I16TryFromOr(RoundHalves(h), I16_MAX),
          min_depth, max_depth>>))]

\* render_pass_set_scissor_rect
render_pass_set_scissor_rect(i, x, y, w, h) ==
    [i EXCEPT !.pass.raw = Append(@, Call("set_scissors",
        <<0,
          I16TryFromOr(x, 0),
          I16TryFromOr(y, 0),
          I16TryFromOr(w, I16_MAX),
          I16TryFromOr(h, I16_MAX)>>))]

----------------------------------------------------------------------------
(* The begin of command_encoder_run_render_pass: attachments, keys, caches *)

TextureIds == {1, 2, 3, 4}

\* hub.textures: the usage each texture was created with
texture_guard ==
    [id \in TextureIds |->
        IF id = 4 THEN [usage |-> {"SAMPLED"}]
                  ELSE [usage |-> {"OUTPUT_ATTACHMENT", "COPY_DST", "SAMPLED"}]]

TextureViewIds == {1, 2, 3, 4, 5, 6, 7}

\* hub.texture_views.  inner.source_id is 0 for a swap-chain view.
view_guard ==
    [id \in TextureViewIds |->
        CASE id = 1 -> [extent |-> <<2, 2>>, samples |-> 1, format |-> "Rgba8Unorm",
                        inner |-> [kind |-> "Native", source_id |-> 1]]
          [] id = 2 -> [extent |-> <<2, 2>>, samples |-> 4, format |-> "Rgba8Unorm",
                        inner |-> [kind |-> "Native", source_id |-> 2]]
          [] id = 3 -> [extent |-> <<2, 2>>, samples |-> 1, format |-> "Depth32Float",
                        inner |-> [kind |-> "Native", source_id |-> 3]]
          [] id = 4 -> [extent |-> <<2, 2>>, samples |-> 1, format |-> "Bgra8Unorm",
                        inner |-> [kind |-> "SwapChain", source_id |-> 0]]
          [] id = 5 -> [extent |-> <<1, 1>>, samples |-> 1, format |-> "Rgba8Uint",
                        inner |-> [kind |-> "Native", source_id |-> 1]]
          [] id = 6 -> [extent |-> <<2, 2>>, samples |-> 1, format |-> "Rgba8Unorm",
                        inner |-> [kind |-> "Native", source_id |-> 4]]
          [] id = 7 -> [extent |-> <<2, 2>>, samples |-> 1, format |-> "Bgra8Unorm",
                        inner |-> [kind |-> "SwapChain", source_id |-> 0]]]

\* limits.framebuffer_color_sample_counts: the sample counts of the bit mask
samples_count_limit == {1, 4}

\* conv::map_texture_state(usage, aspects).1: the image layout of a usage
map_texture_state(usage, aspects) ==
    CASE usage = "COPY_SRC" -> "TransferSrcOptimal"
      [] usage = "COPY_DST" -> "TransferDstOptimal"
      [] usage = "SAMPLED" -> "ShaderReadOnlyOptimal"
      [] usage = "OUTPUT_ATTACHMENT" ->
            IF aspects = "COLOR" THEN "ColorAttachmentOptimal"
                                 ELSE "DepthStencilAttachmentOptimal"
      [] OTHER -> "General"

\* conv::map_load_store_ops
map_load_store_ops(load, store) == <<load, store>>

\* hal::pass::AttachmentOps::DONT_CARE
DONT_CARE == <<"DontCare", "DontCare">>

\* ChannelType of a format, as the clear value's field
ClearColorField(format) ==
    CASE format = "Rgba8Uint" -> "uint32"
      [] format = "Rgba8Sint" -> "sint32"
      [] OTHER -> "float32"

\* crate::device::MAX_COLOR_TARGETS: the length of color_ids
MAX_COLOR_TARGETS == 4

\* `x as i16` of a u32
AsI16(x) == ((x + I16_MAX + 1) % (2 * (I16_MAX + 1))) - (I16_MAX + 1)

\* hal::pass::ATTACHMENT_UNUSED (!0 as an attachment index)
ATTACHMENT_UNUSED == 0 - 1

\* TextureTracker::query: the usage the tracker holds for the texture, if any
query(textures, source_id) ==
    IF \E t \in textures : t.id = source_id
    THEN Some((CHOOSE t \in textures : t.id = source_id).last)
    ELSE None

\* TextureTracker::change_replace: the first usage stays, the last is replaced
change_replace(textures, source_id, usage) ==
    IF \E t \in textures : t.id = source_id
    THEN {IF t.id = source_id THEN [t EXCEPT !.last = usage] ELSE t : t \in textures}
    ELSE textures \cup {[id |-> source_id, first |-> usage, last |-> usage]}

\* the depth-stencil attachment of the pass (lines 437-482)
Begin_DepthStencil(b, pass) ==
    IF pass.depth_stencil_attachment = None
    THEN b
    ELSE LET at == pass.depth_stencil_attachment[1]
             view == view_guard[at.attachment]
             b1 == [b EXCEPT !.cmb.trackers.views = @ \cup {at.attachment}]
             consistent_usage == query(b.cmb.trackers.textures, view.inner.source_id)
             old_layout ==
                IF consistent_usage = None
                THEN "DepthStencilAttachmentOptimal"
                ELSE map_texture_state(consistent_usage[1], "DEPTH|STENCIL")
         IN  IF b.extent # None /\ b.extent[1] # view.extent
             THEN [b1 EXCEPT !.err = <<"AttachmentExtentMismatch">>]
             ELSE IF view.inner.kind = "SwapChain"
             THEN [b1 EXCEPT !.extent = Some(view.extent),
                             !.err = <<"SwapChainMisuse">>]
             ELSE [b1 EXCEPT
                     !.extent = Some(view.extent),
                     !.output_attachments =
                        Append(@, <<view.inner.source_id, consistent_usage>>),
                     !.depth_stencil = Some(
                        [format |-> view.format,
                         samples |-> view.samples,
                         ops |-> map_load_store_ops(at.depth_load_op, at.depth_store_op),
                         stencil_ops |-> map_load_store_ops(at.stencil_load_op,
                                                            at.stencil_store_op),
                         layouts |-> <<old_layout, "DepthStencilAttachmentOptimal">>])]

\* the layouts of an attachment, were the swap-chain image of the command
\* buffer refused to every later pass
Begin_Layouts_OnePass(b, view_id) ==
    LET view == view_guard[view_id]
        first_use == view_id \notin b.cmb.trackers.views
        b1 == [b EXCEPT !.cmb.trackers.views = @ \cup {view_id}]
        consistent_usage == query(b.cmb.trackers.textures, view.inner.source_id)
        old_layout ==
            IF consistent_usage = None
            THEN "ColorAttachmentOptimal"
            ELSE map_texture_state(consistent_usage[1], "COLOR")
        swap_layouts == <<IF first_use THEN "Undefined" ELSE "Present", "Present">>
    IN  IF view.inner.kind = "Native"
        THEN [b1 EXCEPT
                !.output_attachments =
                    Append(@, <<view.inner.source_id, consistent_usage>>),
                !.layouts = <<old_layout, "ColorAttachmentOptimal">>]
        ELSE IF b.cmb.used_swap_chain # None
        THEN IF b.cmb.used_swap_chain[1] = view_id
             THEN [b1 EXCEPT !.err = <<"SwapChainMisuse">>]
             ELSE [b1 EXCEPT !.err = <<"SwapChainMisuse">>]
        ELSE IF b.used_swap_chain_image # None
             THEN [b1 EXCEPT !.err = <<"SwapChainMisuse">>]
             ELSE [b1 EXCEPT !.used_swap_chain_image = Some(view_id),
                             !.layouts = swap_layouts]

\* the layouts of an attachment, without the check that a swap-chain view
\* is the one the command buffer holds
Begin_Layouts_AnyView(b, view_id) ==
    LET view == view_guard[view_id]
        first_use == view_id \notin b.cmb.trackers.views
        b1 == [b EXCEPT !.cmb.trackers.views = @ \cup {view_id}]
        consistent_usage == query(b.cmb.trackers.textures, view.inner.source_id)
        old_layout ==
            IF consistent_usage = None
            THEN "ColorAttachmentOptimal"
            ELSE map_texture_state(consistent_usage[1], "COLOR")
        swap_layouts == <<IF first_use THEN "Undefined" ELSE "Present", "Present">>
    IN  IF view.inner.kind = "Native"
        THEN [b1 EXCEPT
                !.output_attachments =
                    Append(@, <<view.inner.source_id, consistent_usage>>),
                !.layouts = <<old_layout, "ColorAttachmentOptimal">>]
        ELSE IF b.cmb.used_swap_chain # None
        THEN [b1 EXCEPT !.layouts = swap_layouts]
        ELSE IF b.used_swap_chain_image # None
             THEN [b1 EXCEPT !.err = <<"SwapChainMisuse">>]
             ELSE [b1 EXCEPT !.used_swap_chain_image = Some(view_id),
                             !.layouts = swap_layouts]

\* the layouts of an attachment, with every use of a swap-chain view taken
\* for its first
Begin_Layouts_FirstUse(b, view_id) ==
    LET view == view_guard[view_id]
        first_use == view_id \notin b.cmb.trackers.views
        b1 == [b EXCEPT !.cmb.trackers.views = @ \cup {view_id}]
        consistent_usage == query(b.cmb.trackers.textures, view.inner.source_id)
        old_layout ==
            IF consistent_usage = None
            THEN "ColorAttachmentOptimal"
            ELSE map_texture_state(consistent_usage[1], "COLOR")
        swap_layouts == <<"Undefined", "Present">>
    IN  IF view.inner.kind = "Native"
        THEN [b1 EXCEPT
                !.output_attachments =
                    Append(@, <<view.inner.source_id, consistent_usage>>),
                !.layouts = <<old_layout, "ColorAttachmentOptimal">>]
        ELSE IF b.cmb.used_swap_chain # None
        THEN IF b.cmb.used_swap_chain[1] = view_id
             THEN [b1 EXCEPT !.layouts = swap_layouts]
             ELSE [b1 EXCEPT !.err = <<"SwapChainMisuse">>]
        ELSE IF b.used_swap_chain_image # None
             THEN [b1 EXCEPT !.err = <<"SwapChainMisuse">>]
             ELSE [b1 EXCEPT !.used_swap_chain_image = Some(view_id),
                             !.layouts = swap_layouts]

\* the layouts of a color or resolve attachment, with the bookkeeping of the
\* output attachments and of the swap-chain image (lines 498-537, 558-597)
Begin_Layouts(b, view_id) ==
    LET view == view_guard[view_id]
        first_use == view_id \notin b.cmb.trackers.views
        b1 == [b EXCEPT !.cmb.trackers.views = @ \cup {view_id}]
        consistent_usage == query(b.cmb.trackers.textures, view.inner.source_id)
        old_layout ==
            IF consistent_usage = None
            THEN "ColorAttachmentOptimal"
            ELSE map_texture_state(consistent_usage[1], "COLOR")
        swap_layouts == <<IF first_use THEN "Undefined" ELSE "Present", "Present">>
    IN  IF view.inner.kind = "Native"
        THEN [b1 EXCEPT
                !.output_attachments =
                    Append(@, <<view.inner.source_id, consistent_usage>>),
                !.layouts = <<old_layout, "ColorAttachmentOptimal">>]
        ELSE IF b.cmb.used_swap_chain # None
        THEN IF b.cmb.used_swap_chain[1] = view_id
             THEN [b1 EXCEPT !.layouts = swap_layouts]
             ELSE [b1 EXCEPT !.err = <<"SwapChainMisuse">>]
        ELSE IF b.used_swap_chain_image # None
             THEN [b1 EXCEPT !.err = <<"SwapChainMisuse">>]
             ELSE [b1 EXCEPT !.used_swap_chain_image = Some(view_id),
                             !.layouts = swap_layouts]

\* the loop over the color attachments (lines 487-546)
Begin_Colors(b, pass) ==
    LET n == Len(pass.color_attachments)
        walk[k \in 0 .. n] ==
            IF k = 0 THEN b
            ELSE LET acc == walk[k - 1]
                     at == pass.color_attachments[k]
                     view == view_guard[at.attachment]
                     acc1 == IF acc.extent = None
                             THEN [acc EXCEPT !.extent = Some(view.extent)]
                             ELSE acc
                     acc2 == Begin_Layouts(acc1, at.attachment)
                 IN  IF acc.err # None
                     THEN acc
                     ELSE IF acc.extent # None /\ acc.extent[1] # view.extent
                     THEN [acc EXCEPT !.err = <<"AttachmentExtentMismatch">>]
                     ELSE IF view.samples # acc.sample_count
                     THEN [acc1 EXCEPT !.err = <<"AttachmentSampleCountMismatch">>]
                     ELSE IF acc2.err # None
                     THEN acc2
                     ELSE IF Len(acc2.colors) >= MAX_COLOR_TARGETS
                     THEN [acc2 EXCEPT !.err = <<"CapacityError">>]
                     ELSE [acc2 EXCEPT !.colors = Append(@,
                            [format |-> view.format,
                             samples |-> view.samples,
                             ops |-> map_load_store_ops(at.load_op, at.store_op),
                             stencil_ops |-> DONT_CARE,
                             layouts |-> acc2.layouts])]
    IN  walk[n]

\* the resolve targets of the color attachments, in their order
ResolveTargets(pass) ==
    LET n == Len(pass.color_attachments)
        walk[k \in 0 .. n] ==
            IF k = 0 THEN <<>>
            ELSE walk[k - 1] \o pass.color_attachments[k].resolve_target
    IN  walk[n]

\* the loop over the resolve targets without its check of the extent
Begin_Resolves_NoExtent(b, pass) ==
    LET targets == ResolveTargets(pass)
        n == Len(targets)
        walk[k \in 0 .. n] ==
            IF k = 0 THEN b
            ELSE LET acc == walk[k - 1]
                     view == view_guard[targets[k]]
                     acc2 == Begin_Layouts(acc, targets[k])
                 IN  IF acc.err # None
                     THEN acc
                     ELSE IF view.samples # 1
                     THEN [acc EXCEPT !.err = <<"ResolveTargetInvalid">>]
                     ELSE IF acc2.err # None
                     THEN acc2
                     ELSE [acc2 EXCEPT !.resolves = Append(@,
                            [format |-> view.format,
                             samples |-> view.samples,
                             ops |-> <<"DontCare", "Store">>,
                             stencil_ops |-> DONT_CARE,
                             layouts |-> acc2.layouts])]
    IN  walk[n]

\* the loop over the resolve targets (lines 548-609)
Begin_Resolves(b, pass) ==
    LET targets == ResolveTargets(pass)
        n == Len(targets)
        walk[k \in 0 .. n] ==
            IF k = 0 THEN b
            ELSE LET acc == walk[k - 1]
                     view == view_guard[targets[k]]
                     acc2 == Begin_Layouts(acc, targets[k])
                 IN  IF acc.err # None
                     THEN acc
                     ELSE IF acc.extent # Some(view.extent)
                     THEN [acc EXCEPT !.err = <<"AttachmentExtentMismatch">>]
                     ELSE IF view.samples # 1
                     THEN [acc EXCEPT !.err = <<"ResolveTargetInvalid">>]
                     ELSE IF acc2.err # None
                     THEN acc2
                     ELSE [acc2 EXCEPT !.resolves = Append(@,
                            [format |-> view.format,
                             samples |-> view.samples,
                             ops |-> <<"DontCare", "Store">>,
                             stencil_ops |-> DONT_CARE,
                             layouts |-> acc2.layouts])]
    IN  walk[n]

\* the loop over output_attachments without the assertion on texture.usage
Begin_OutputAttachments_NoUsage(b) ==
    LET n == Len(b.output_attachments)
        walk[k \in 0 .. n] ==
            IF k = 0 THEN b
            ELSE LET acc == walk[k - 1]
                     source_id == b.output_attachments[k][1]
                     consistent_usage == b.output_attachments[k][2]
                     usage == IF consistent_usage = None
                              THEN "OUTPUT_ATTACHMENT"
                              ELSE consistent_usage[1]
                     first == change_replace(acc.trackers.textures, source_id, usage)
                 IN  IF acc.err # None
                     THEN acc
                     ELSE [acc EXCEPT
                            !.trackers.textures =
                                IF consistent_usage = None
                                THEN first
                                ELSE change_replace(first, source_id, "OUTPUT_ATTACHMENT"),
                            !.transitions =
                                IF consistent_usage = None
                                THEN Append(@, <<source_id, usage>>)
                                ELSE @ \o <<<<source_id, usage>>,
                                            <<source_id, "OUTPUT_ATTACHMENT">>>>]
    IN  walk[n]

\* the loop over output_attachments with the first change_replace only
Begin_OutputAttachments_OneChange(b) ==
    LET n == Len(b.output_attachments)
        walk[k \in 0 .. n] ==
            IF k = 0 THEN b
            ELSE LET acc == walk[k - 1]
                     source_id == b.output_attachments[k][1]
                     consistent_usage == b.output_attachments[k][2]
                     usage == IF consistent_usage = None
                              THEN "OUTPUT_ATTACHMENT"
                              ELSE consistent_usage[1]
                     first == change_replace(acc.trackers.textures, source_id, usage)
                 IN  IF acc.err # None
                     THEN acc
                     ELSE IF "OUTPUT_ATTACHMENT" \notin texture_guard[source_id].usage
                     THEN [acc EXCEPT !.err = <<"UsageBitMissing", "OUTPUT_ATTACHMENT">>]
                     ELSE [acc EXCEPT
                            !.trackers.textures = first,
                            !.transitions = Append(@, <<source_id, usage>>)]
    IN  walk[n]

\* the loop over output_attachments: usage check and first state (lines 618-640)
Begin_OutputAttachments(b) ==
    LET n == Len(b.output_attachments)
        walk[k \in 0 .. n] ==
            IF k = 0 THEN b
            ELSE LET acc == walk[k - 1]
                     source_id == b.output_attachments[k][1]
                     consistent_usage == b.output_attachments[k][2]
                     usage == IF consistent_usage = None
                              THEN "OUTPUT_ATTACHMENT"
                              ELSE consistent_usage[1]
                     first == change_replace(acc.trackers.textures, source_id, usage)
                 IN  IF acc.err # None
                     THEN acc
                     ELSE IF "OUTPUT_ATTACHMENT" \notin texture_guard[source_id].usage
                     THEN [acc EXCEPT !.err = <<"UsageBitMissing", "OUTPUT_ATTACHMENT">>]
                     ELSE [acc EXCEPT
                            !.trackers.textures =
                                IF consistent_usage = None
                                THEN first
                                ELSE change_replace(first, source_id, "OUTPUT_ATTACHMENT"),
                            !.transitions =
                                IF consistent_usage = None
                                THEN Append(@, <<source_id, usage>>)
                                ELSE @ \o <<<<source_id, usage>>,
                                            <<source_id, "OUTPUT_ATTACHMENT">>>>]
    IN  walk[n]

\* the subpass built on a miss of the render pass cache, without the
\* assertion on sample_count_check
Begin_Subpass_NoCheck(pass) ==
    LET n == Len(pass.color_attachments)
        any_resolve == \E k \in 1 .. n : pass.color_attachments[k].resolve_target # None
        walk[k \in 0 .. n] ==
            IF k = 0
            THEN [resolve_ids |-> <<>>, attachment_index |-> n, err |-> None]
            ELSE LET acc == walk[k - 1]
                     at == pass.color_attachments[k]
                     sample_count_check == view_guard[at.attachment].samples
                 IN  IF acc.err # None
                     THEN acc
                     ELSE IF at.resolve_target = None
                     THEN [acc EXCEPT !.resolve_ids =
                            Append(@, <<ATTACHMENT_UNUSED, "ColorAttachmentOptimal">>)]
                     ELSE [acc EXCEPT
                            !.resolve_ids =
                                Append(@, <<acc.attachment_index, "ColorAttachmentOptimal">>),
                            !.attachment_index = @ + 1]
        ids == IF any_resolve
               THEN walk[n]
               ELSE [resolve_ids |-> <<>>, attachment_index |-> n, err |-> None]
    IN  [colors |-> [k \in 1 .. n |-> <<k - 1, "ColorAttachmentOptimal">>],
         resolves |-> ids.resolve_ids,
         depth_stencil |->
            IF pass.depth_stencil_attachment = None
            THEN None
            ELSE Some(<<ids.attachment_index, "DepthStencilAttachmentOptimal">>),
         err |-> IF n > MAX_COLOR_TARGETS THEN <<"IndexOutOfBounds">> ELSE ids.err]

\* the subpass with the depth-stencil reference right after the colors
Begin_Subpass_DepthAtN(pass) ==
    LET n == Len(pass.color_attachments)
        any_resolve == \E k \in 1 .. n : pass.color_attachments[k].resolve_target # None
        walk[k \in 0 .. n] ==
            IF k = 0
            THEN [resolve_ids |-> <<>>, attachment_index |-> n, err |-> None]
            ELSE LET acc == walk[k - 1]
                     at == pass.color_attachments[k]
                     sample_count_check == view_guard[at.attachment].samples
                 IN  IF acc.err # None
                     THEN acc
                     ELSE IF at.resolve_target = None
                     THEN [acc EXCEPT !.resolve_ids =
                            Append(@, <<ATTACHMENT_UNUSED, "ColorAttachmentOptimal">>)]
                     ELSE IF ~(sample_count_check > 1)
                     THEN [acc EXCEPT !.err = <<"ResolveTargetInvalid">>]
                     ELSE [acc EXCEPT
                            !.resolve_ids =
                                Append(@, <<acc.attachment_index, "ColorAttachmentOptimal">>),
                            !.attachment_index = @ + 1]
        ids == IF any_resolve
               THEN walk[n]
               ELSE [resolve_ids |-> <<>>, attachment_index |-> n, err |-> None]
    IN  [colors |-> [k \in 1 .. n |-> <<k - 1, "ColorAttachmentOptimal">>],
         resolves |-> ids.resolve_ids,
         depth_stencil |->
            IF pass.depth_stencil_attachment = None
            THEN None
            ELSE Some(<<n, "DepthStencilAttachmentOptimal">>),
         err |-> IF n > MAX_COLOR_TARGETS THEN <<"IndexOutOfBounds">> ELSE ids.err]

\* the subpass built on a miss of the render pass cache (lines 646-689):
\* the references, or the panic of sample_count_check
Begin_Subpass(pass) ==
    LET n == Len(pass.color_attachments)
        any_resolve == \E k \in 1 .. n : pass.color_attachments[k].resolve_target # None
        walk[k \in 0 .. n] ==
            IF k = 0
            THEN [resolve_ids |-> <<>>, attachment_index |-> n, err |-> None]
            ELSE LET acc == walk[k - 1]
                     at == pass.color_attachments[k]
                     sample_count_check == view_guard[at.attachment].samples
                 IN  IF acc.err # None
                     THEN acc
                     ELSE IF at.resolve_target = None
                     THEN [acc EXCEPT !.resolve_ids =
                            Append(@, <<ATTACHMENT_UNUSED, "ColorAttachmentOptimal">>)]
                     ELSE IF ~(sample_count_check > 1)
                     THEN [acc EXCEPT !.err = <<"ResolveTargetInvalid">>]
                     ELSE [acc EXCEPT
                            !.resolve_ids =
                                Append(@, <<acc.attachment_index, "ColorAttachmentOptimal">>),
                            !.attachment_index = @ + 1]
        ids == IF any_resolve
               THEN walk[n]
               ELSE [resolve_ids |-> <<>>, attachment_index |-> n, err |-> None]
    IN  [colors |-> [k \in 1 .. n |-> <<k - 1, "ColorAttachmentOptimal">>],
         resolves |-> ids.resolve_ids,
         depth_stencil |->
            IF pass.depth_stencil_attachment = None
            THEN None
            ELSE Some(<<ids.attachment_index, "DepthStencilAttachmentOptimal">>),
         err |-> IF n > MAX_COLOR_TARGETS THEN <<"IndexOutOfBounds">> ELSE ids.err]

\* FramebufferKey of the pass (lines 702-710)
FramebufferKey(pass) ==
    [colors |-> [k \in 1 .. Len(pass.color_attachments) |->
                    pass.color_attachments[k].attachment],
     resolves |-> ResolveTargets(pass),
     depth_stencil |->
        IF pass.depth_stencil_attachment = None
        THEN None
        ELSE Some(pass.depth_stencil_attachment[1].attachment)]

\* the clear values handed to begin_render_pass (lines 768-811)
ClearValues(pass, colors) ==
    LET n == Len(pass.color_attachments)
        walk[k \in 0 .. n] ==
            IF k = 0 THEN <<>>
            ELSE IF pass.color_attachments[k].load_op = "Load"
                 THEN walk[k - 1]
                 ELSE Append(walk[k - 1],
                             <<ClearColorField(colors[k].format),
                               pass.color_attachments[k].clear_color, 0>>)
        ds == pass.depth_stencil_attachment
    IN  walk[n] \o
        (IF ds = None \/ (ds[1].depth_load_op = "Load" /\ ds[1].stencil_load_op = "Load")
         THEN <<>>
         ELSE <<<<"depth_stencil", ds[1].clear_depth, ds[1].clear_stencil>>>>)

\* RenderPassContext of the pass (lines 831-842)
RenderPassContext(pass) ==
    [colors |-> [k \in 1 .. Len(pass.color_attachments) |->
                    view_guard[pass.color_attachments[k].attachment].format],
     resolves |-> [k \in 1 .. Len(ResolveTargets(pass)) |->
                    view_guard[ResolveTargets(pass)[k]].format],
     depth_stencil |->
        IF pass.depth_stencil_attachment = None
        THEN None
        ELSE Some(view_guard[pass.depth_stencil_attachment[1].attachment].format)]

\* sample_count of the pass (lines 415-418)
SampleCount(pass) ==
    IF pass.color_attachments = <<>>
    THEN 1
    ELSE view_guard[pass.color_attachments[1].attachment].samples

\* the attachments of the pass: rp_key and the output attachments
\* (lines 436-640), from the command buffer of the encoder
Begin_Attachments(cmb, pass) ==
    Begin_OutputAttachments(
        Begin_Resolves(
            Begin_Colors(
                Begin_DepthStencil(
                    [cmb |-> cmb, trackers |-> TrackerSet_new, extent |-> None,
                     used_swap_chain_image |-> None, output_attachments |-> <<>>,
                     transitions |-> <<>>,
                     colors |-> <<>>, resolves |-> <<>>, depth_stencil |-> None,
                     layouts |-> <<>>, sample_count |-> SampleCount(pass),
                     err |-> None],
                    pass),
                pass),
            pass))

\* RenderPassKey (lines 611-615)
RenderPassKey(b) ==
    [colors |-> b.colors, resolves |-> b.resolves, depth_stencil |-> b.depth_stencil]

\* the render pass of rp_key, created without a look at device.render_passes
Begin_RenderPass_NoCache(dev, rp_key, subpass) ==
    IF FALSE
    THEN [device |-> dev,
          render_pass |-> CHOOSE r \in dev.render_passes : r.key = rp_key,
          err |-> None]
    ELSE IF subpass.err # None
    THEN [device |-> dev, render_pass |-> None, err |-> subpass.err]
    ELSE [device |->
            [dev EXCEPT
                !.render_passes = @ \cup
                    {[key |-> rp_key,
                      subpass |-> [colors |-> subpass.colors,
                                   resolves |-> subpass.resolves,
                                   depth_stencil |-> subpass.depth_stencil]]},
                !.created = Append(@, <<"create_render_pass", rp_key>>)],
          render_pass |->
            [key |-> rp_key,
             subpass |-> [colors |-> subpass.colors,
                          resolves |-> subpass.resolves,
                          depth_stencil |-> subpass.depth_stencil]],
          err |-> None]

\* the entry of device.render_passes for rp_key (lines 642-699)
Begin_RenderPass(dev, rp_key, subpass) ==
    IF \E r \in dev.render_passes : r.key = rp_key
    THEN [device |-> dev,
          render_pass |-> CHOOSE r \in dev.render_passes : r.key = rp_key,
          err |-> None]
    ELSE IF subpass.err # None
    THEN [device |-> dev, render_pass |-> None, err |-> subpass.err]
    ELSE [device |->
            [dev EXCEPT
                !.render_passes = @ \cup
                    {[key |-> rp_key,
                      subpass |-> [colors |-> subpass.colors,
                                   resolves |-> subpass.resolves,
                                   depth_stencil |-> subpass.depth_stencil]]},
                !.created = Append(@, <<"create_render_pass", rp_key>>)],
          render_pass |->
            [key |-> rp_key,
             subpass |-> [colors |-> subpass.colors,
                          resolves |-> subpass.resolves,
                          depth_stencil |-> subpass.depth_stencil]],
          err |-> None]

\* the framebuffer of the pass, created without a look at device.framebuffers
Begin_Framebuffer_NoCache(dev, cmb, fb_key, swap, extent) ==
    IF swap # None /\ cmb.used_swap_chain # None
    THEN [device |-> dev, cmb |-> cmb, err |-> <<"SwapChainMisuse">>]
    ELSE IF extent = None
    THEN [device |-> dev, cmb |-> cmb, err |-> <<"NoAttachments">>]
    ELSE IF swap # None
    THEN [device |-> [dev EXCEPT !.created = Append(@, <<"create_framebuffer", fb_key>>)],
          cmb |-> [cmb EXCEPT !.used_swap_chain = <<swap[1], fb_key>>],
          err |-> None]
    ELSE IF FALSE
    THEN [device |-> dev, cmb |-> cmb, err |-> None]
    ELSE [device |-> [dev EXCEPT !.framebuffers = @ \cup {fb_key},
                                 !.created = Append(@, <<"create_framebuffer", fb_key>>)],
          cmb |-> cmb,
          err |-> None]

\* the framebuffer of the pass (lines 712-756) and `extent.unwrap()` of the
\* rect (line 759): a fresh one kept by the command buffer for a swap-chain
\* image, the device's cached one otherwise
Begin_Framebuffer(dev, cmb, fb_key, swap, extent) ==
    IF swap # None /\ cmb.used_swap_chain # None
    THEN [device |-> dev, cmb |-> cmb, err |-> <<"SwapChainMisuse">>]
    ELSE IF extent = None
    THEN [device |-> dev, cmb |-> cmb, err |-> <<"NoAttachments">>]
    ELSE IF swap # None
    THEN [device |-> [dev EXCEPT !.created = Append(@, <<"create_framebuffer", fb_key>>)],
          cmb |-> [cmb EXCEPT !.used_swap_chain = <<swap[1], fb_key>>],
          err |-> None]
    ELSE IF fb_key \in dev.framebuffers
    THEN [device |-> dev, cmb |-> cmb, err |-> None]
    ELSE [device |-> [dev EXCEPT !.framebuffers = @ \cup {fb_key},
                                 !.created = Append(@, <<"create_framebuffer", fb_key>>)],
          cmb |-> cmb,
          err |-> None]

\* begin_render_pass, set_scissors, set_viewports (lines 758-829), the
\* context (lines 831-842) and the initial State (lines 846-860)
Begin_Record(e, pass, b, render_pass, fb) ==
    IF fb.err # None
    THEN [enc |-> Panic([e EXCEPT !.cmb = b.cmb, !.trackers = b.trackers], fb.err),
          device |-> fb.device]
    ELSE [enc |->
            [e EXCEPT
                !.pc = "commands",
                !.cmb = fb.cmb,
                !.trackers = b.trackers,
                !.context = RenderPassContext(pass),
                !.sample_count = b.sample_count,
                !.state = State_new(max_bind_groups),
                !.begin = Some([render_pass |-> render_pass,
                                framebuffer |-> FramebufferKey(pass),
                                transitions |-> b.transitions,
                                clear_values |-> ClearValues(pass, b.colors)]),
                !.raw = @ \o
                    <<Call("begin_render_pass",
                           <<AsI16(b.extent[1][1]), AsI16(b.extent[1][2]),
                             Len(ClearValues(pass, b.colors))>>),
                      Call("set_scissors",
                           <<0, 0, 0, AsI16(b.extent[1][1]), AsI16(b.extent[1][2])>>),
                      Call("set_viewports",
                           <<0, 0, 0, AsI16(b.extent[1][1]), AsI16(b.extent[1][2]),
                             0, 1>>)>>],
          device |-> fb.device]

\* the caches of the device (lines 642-756), then the recording
Begin_Caches(e, pass, b, rp) ==
    IF rp.err # None
    THEN [enc |-> Panic([e EXCEPT !.cmb = b.cmb, !.trackers = b.trackers], rp.err),
          device |-> rp.device]
    ELSE Begin_Record(e, pass, b, rp.render_pass,
                      Begin_Framebuffer(rp.device, b.cmb, FramebufferKey(pass),
                                        b.used_swap_chain_image, b.extent))

\* the attachments (lines 436-640), then the caches
Begin_Keys(e, dev, pass, b) ==
    IF b.err # None
    THEN [enc |-> Panic([e EXCEPT !.cmb = b.cmb, !.trackers = b.trackers], b.err),
          device |-> dev]
    ELSE Begin_Caches(e, pass, b,
                      Begin_RenderPass(dev, RenderPassKey(b), Begin_Subpass(pass)))

\* command_encoder_run_render_pass up to its command loop (lines 384-860):
\* the form and the device afterwards
Enc_Begin(e, dev, pass) ==
    IF SampleCount(pass) \notin samples_count_limit
    THEN [enc |-> Panic(e, <<"AttachmentSampleCountMismatch">>), device |-> dev]
    ELSE Begin_Keys(e, dev, pass, Begin_Attachments(e.cmb, pass))

----------------------------------------------------------------------------
(* Pass end                                                                *)

\* the transitions CommandBuffer::insert_barriers records on `last`: the
\* textures whose usage in the command buffer differs from the pass's first,
\* and the buffers the pass uses in a way the command buffer has not
Barriers(base, head) ==
    {<<"texture", h.id>> :
        h \in {t \in head.textures :
                  \E o \in base.textures : o.id = t.id /\ o.last # t.first}}
    \cup {<<"buffer", h[1]>> :
            h \in {b \in head.buffers :
                      /\ \E o \in base.buffers : o[1] = b[1]
                      /\ b \notin base.buffers}}

\* render_pass_end_pass without `cmb.raw.push(pass.raw)`
render_pass_end_pass_NoPush(i) ==
    [i EXCEPT !.pc = "done",
              !.pass.raw = Append(@, Call("end_render_pass", <<>>)),
              !.cmb.trackers = merge_extend(@, i.pass.trackers)]

\* render_pass_end_pass with `last.finish()` ahead of insert_barriers
render_pass_end_pass_FinishFirst(i) ==
    LET raw == Append(i.pass.raw, Call("end_render_pass", <<>>))
        n == Len(i.cmb.raw)
        barriers == Barriers(i.cmb.trackers, i.pass.trackers)
        finished == Append(i.cmb.raw[n], Call("finish", <<>>))
        last == IF barriers = {}
                THEN finished
                ELSE Append(finished,
                            Call("pipeline_barrier", <<Cardinality(barriers)>>))
    IN  [i EXCEPT
            !.pc = "done",
            !.pass.raw = raw,
            !.cmb.trackers =
                IF n > 0
                THEN insert_barriers(i.cmb.trackers, i.pass.trackers)
                ELSE merge_extend(i.cmb.trackers, i.pass.trackers),
            !.cmb.raw =
                IF n > 0
                THEN Append([i.cmb.raw EXCEPT ![n] = last], raw)
                ELSE <<raw>>,
            !.cmb.ended =
                IF n > 0
                THEN <<"end_render_pass", "optimize", "finish", "insert_barriers", "push">>
                ELSE <<"end_render_pass", "optimize", "merge_extend", "push">>]

\* render_pass_end_pass (lines 337-375); `ended` lists the calls of the
\* function in the order it makes them: end_render_pass (343), optimize
\* (345), then insert_barriers (355) and finish (362) on the last sub-buffer
\* or, without one, merge_extend (365), then the push (374)
render_pass_end_pass(i) ==
    LET raw == Append(i.pass.raw, Call("end_render_pass", <<>>))
        n == Len(i.cmb.raw)
        barriers == Barriers(i.cmb.trackers, i.pass.trackers)
        last == IF barriers = {}
                THEN i.cmb.raw[n]
                ELSE Append(i.cmb.raw[n],
                            Call("pipeline_barrier", <<Cardinality(barriers)>>))
    IN  [i EXCEPT
            !.pc = "done",
            !.pass.raw = raw,
            !.cmb.trackers =
                IF n > 0
                THEN insert_barriers(i.cmb.trackers, i.pass.trackers)
                ELSE merge_extend(i.cmb.trackers, i.pass.trackers),
            !.cmb.raw =
                IF n > 0
                THEN Append([i.cmb.raw EXCEPT ![n] = Append(last, Call("finish", <<>>))],
                            raw)
                ELSE <<raw>>,
            !.cmb.ended =
                IF n > 0
                THEN <<"end_render_pass", "optimize", "insert_barriers", "finish", "push">>
                ELSE <<"end_render_pass", "optimize", "merge_extend", "push">>]

\* command_encoder_run_render_pass after the last command: the function
\* returns (line 1158)
Enc_Return(e) == [e EXCEPT !.pc = "done"]

\* the RenderPass the hub holds for the incremental form: RenderPass::new on
\* what the begin of the pass produced
Inc_Begin(i, begun) ==
    IF begun.pc = "failed"
    THEN Panic([i EXCEPT !.cmb.trackers = begun.cmb.trackers], begun.error)
    ELSE [i EXCEPT
            !.pc = "commands",
            !.cmb.trackers = begun.cmb.trackers,
            !.cmb.used_swap_chain = begun.cmb.used_swap_chain,
            !.pass = RenderPass_new(begun.raw, begun.context, begun.trackers,
                                    begun.sample_count, max_bind_groups)]

----------------------------------------------------------------------------
(* The inputs of the model                                                 *)

\* a color attachment descriptor
ColorAttachment(view_id, load_op, resolve_target) ==
    [attachment |-> view_id, resolve_target |-> resolve_target,
     load_op |-> load_op, store_op |-> "Store", clear_color |-> 1]

\* a depth-stencil attachment descriptor
DepthStencilAttachment(view_id) ==
    [attachment |-> view_id,
     depth_load_op |-> "Clear", depth_store_op |-> "Store", clear_depth |-> 1,
     stencil_load_op |-> "Load", stencil_store_op |-> "Store", clear_stencil |-> 0]

\* the attachment descriptors of the passes the model begins
PassDescs ==
    { [color_attachments |-> <<ColorAttachment(1, "Clear", None)>>,
       depth_stencil_attachment |-> None],
      [color_attachments |-> <<ColorAttachment(1, "Load", None)>>,
       depth_stencil_attachment |-> Some(DepthStencilAttachment(3))],
      [color_attachments |-> <<ColorAttachment(6, "Clear", None)>>,
       depth_stencil_attachment |-> None] }

\* the command buffer of the encoder before the pass: one open raw buffer,
\* and the usage, if any, its trackers hold for texture 1
CommandBuffers ==
    { [trackers |-> [TrackerSet_new EXCEPT !.textures = tex], used_swap_chain |-> None] :
        tex \in { {}, {[id |-> 1, first |-> "COPY_DST", last |-> "COPY_DST"]} } }

\* what the model keeps of a pass begun on the command buffer: its
\* descriptor, the command buffer it found, how its begin ended, its
\* RenderPassKey and the objects the device created for it
PassRecord(pass, e, dev, begun) ==
    [pass |-> pass,
     views |-> e.cmb.trackers.views,
     textures |-> e.cmb.trackers.textures,
     used_swap_chain |-> e.cmb.used_swap_chain,
     framebuffers |-> dev.framebuffers,
     began |-> begun.enc.pc = "commands",
     error |-> begun.enc.error,
     rp_key |-> IF begun.enc.pc = "commands"
                THEN Some(begun.enc.begin[1].render_pass.key)
                ELSE None,
     render_pass |-> IF begun.enc.pc = "commands"
                     THEN Some(begun.enc.begin[1].render_pass)
                     ELSE None,
     fb_key |-> FramebufferKey(pass),
     transitions |-> IF begun.enc.pc = "commands"
                     THEN begun.enc.begin[1].transitions
                     ELSE <<>>,
     created |-> SubSeq(begun.device.created, Len(dev.created) + 1,
                        Len(begun.device.created))]

\* the attachment descriptors of the passes run one after the other on one
\* command buffer: those of PassDescs, swap-chain images as color and as
\* resolve target, attachments of different extents, resolve targets of
\* single-sampled and into multisampled views, and no attachment
PassesDescs ==
    PassDescs \cup
    { [color_attachments |-> colors, depth_stencil_attachment |-> None] :
        colors \in { <<ColorAttachment(4, "Clear", None)>>,
                     <<ColorAttachment(7, "Clear", None)>>,
                     <<ColorAttachment(2, "Clear", Some(4))>>,
                     <<ColorAttachment(2, "Clear", Some(1))>>,
                     <<ColorAttachment(2, "Clear", Some(5))>>,
                     <<ColorAttachment(1, "Clear", None), ColorAttachment(5, "Clear", None)>>,
                     <<ColorAttachment(4, "Clear", None), ColorAttachment(4, "Load", None)>>,
                     <<ColorAttachment(4, "Clear", None), ColorAttachment(7, "Clear", None)>>,
                     <<ColorAttachment(1, "Clear", Some(1))>>,
                     <<ColorAttachment(2, "Clear", Some(2))>>,
                     <<ColorAttachment(2, "Clear", Some(1)), ColorAttachment(2, "Clear", None)>>,
                     <<ColorAttachment(2, "Clear", None), ColorAttachment(2, "Clear", Some(1))>>,
                     <<>> } } \cup
    { [color_attachments |-> <<ColorAttachment(5, "Clear", None)>>,
       depth_stencil_attachment |-> Some(DepthStencilAttachment(3))],
      [color_attachments |-> <<ColorAttachment(2, "Clear", None),
                               ColorAttachment(2, "Clear", Some(1)),
                               ColorAttachment(2, "Clear", Some(1))>>,
       depth_stencil_attachment |-> Some(DepthStencilAttachment(3))] }

\* a RenderCommand
Command(op, args) == [op |-> op, args |-> args]

\* the form runs the handler if it is in its command loop
Step(form, after) == IF form.pc = "commands" THEN after ELSE form

\* some form is still in its command loop and takes one more command
Running ==
    /\ Len(commands) < MaxCommands
    /\ enc.pc = "commands" \/ inc.pc = "commands"

SetBindGroupInputs ==
    { <<0, 1, <<0, 0>>>>, <<0, 2, <<0, 1>>>>, <<1, 1, <<0, 0>>>>,
      <<0, 2, <<1, 2>>>>, <<0, 2, <<0, 0>>>>, <<max_bind_groups, 1, <<0, 0>>>>,
      <<0, 2, <<0, 2>>>>, <<1, 2, <<0, 1>>>> }

SetIndexBufferInputs == { <<1, 0>>, <<1, 4>>, <<1, 12>>, <<2, 0>>, <<3, 0>> }

SetVertexBufferInputs ==
    { <<0, 1, 0>>, <<1, 1, 4>>, <<0, 1, 12>>, <<0, 2, 0>>, <<0, 3, 0>>,
      <<MAX_VERTEX_BUFFERS, 1, 0>> }

\* rect.x, rect.y, rect.w, rect.h in halves, depth.start, depth.end
SetViewportInputs ==
    { <<0, 0, 4, 4, 0, 1>>, <<1, 0 - 1, 0, 4 * U32_MOD, 0, 1>> }

SetScissorInputs == { <<0, 0, 2, 2>>, <<U32_MAX, 1, U32_MAX, 0>> }

\* vertex_count, instance_count, first_vertex, first_instance
DrawInputs ==
    { <<0, 0, 0, 0>>, <<3, 1, 0, 0>>, <<1, 0, U32_MAX, 0>>, <<0, 1, 0, U32_MAX>>,
      <<4, 1, 1, 0>> }

\* index_count, instance_count, first_index, base_vertex, first_instance
DrawIndexedInputs ==
    { <<0, 0, 0, 0, 0>>, <<2, 0, 0, 0, 0>>, <<2, 0, 0, 0 - 1, 0>>,
      <<1, 0, U32_MAX, 0, 0>>, <<4, 1, 0, 1, 0>>, <<2, 1, 1, 0, 0>> }

IndirectInputs == { <<1, 0>>, <<3, 0>> }

----------------------------------------------------------------------------
(* The state machine                                                       *)

\* the RenderPass the hub holds for a pass id: RenderPass::new on a pass that
\* has begun on a command buffer of its own
HubRenderPass ==
    LET cmb == [trackers |-> TrackerSet_new, used_swap_chain |-> None]
        e == [pc |-> "idle", error |-> None, context |-> None,
              sample_count |-> 0, state |-> None, trackers |-> TrackerSet_new,
              raw |-> <<>>, cmb |-> cmb, begin |-> None]
        i == [pc |-> "idle", error |-> None, pass |-> None,
              cmb |-> [raw |-> <<<<>>>>, trackers |-> cmb.trackers,
                       used_swap_chain |-> cmb.used_swap_chain,
                       ended |-> <<>>]]
        d == [render_passes |-> {}, framebuffers |-> {}, created |-> <<>>]
        pass == [color_attachments |-> <<ColorAttachment(1, "Clear", None)>>,
                 depth_stencil_attachment |-> None]
    IN  Inc_Begin(i, Enc_Begin(e, d, pass).enc)

Init ==
    /\ debug_assertions \in BOOLEAN
    /\ threads = [t \in ThreadIds |-> [call |-> None, held |-> 0]]
    /\ render_passes = [t \in ThreadIds |-> HubRenderPass]
    /\ calls = [t \in ThreadIds |-> <<>>]
    /\ commands = <<>>
    /\ device = [render_passes |-> {}, framebuffers |-> {}, created |-> <<>>]
    /\ passes = <<>>
    /\ \E cmb \in CommandBuffers :
        /\ enc = [pc |-> "idle", error |-> None, context |-> None,
                  sample_count |-> 0, state |-> None, trackers |-> TrackerSet_new,
                  raw |-> <<>>, cmb |-> cmb, begin |-> None]
        /\ inc = [pc |-> "idle", error |-> None, pass |-> None,
                  cmb |-> [raw |-> <<<<>>>>, trackers |-> cmb.trackers,
                           used_swap_chain |-> cmb.used_swap_chain,
                           ended |-> <<>>]]

\* the pass begins: command_encoder_run_render_pass up to its command loop
BeginPass ==
    /\ enc.pc = "idle"
    /\ \E pass \in PassDescs :
        LET begun == Enc_Begin(enc, device, pass)
        IN  /\ enc' = begun.enc
            /\ device' = begun.device
            /\ inc' = Inc_Begin(inc, begun.enc)
            /\ passes' = Append(passes, PassRecord(pass, enc, device, begun))
    /\ UNCHANGED <<debug_assertions, commands, threads, render_passes, calls>>

SetBindGroup ==
    /\ Running
    /\ \E in \in SetBindGroupInputs :
        /\ commands' = Append(commands,
                Command("SetBindGroup", <<in[1], in[2], in[3][1], in[3][2]>>))
        /\ enc' = Step(enc, Enc_SetBindGroup(enc, in[1], in[2], in[3]))
        /\ inc' = Step(inc, render_pass_set_bind_group(inc, in[1], in[2],
                            SubSeq(PassOffsets, in[3][1] + 1, in[3][2])))
    /\ UNCHANGED <<debug_assertions, device, passes, threads, render_passes, calls>>

SetPipeline ==
    /\ Running
    /\ \E pipeline_id \in RenderPipelineIds :
        /\ commands' = Append(commands, Command("SetPipeline", <<pipeline_id>>))
        /\ enc' = Step(enc, Enc_SetPipeline(enc, pipeline_id))
        /\ inc' = Step(inc, render_pass_set_pipeline(inc, pipeline_id))
    /\ UNCHANGED <<debug_assertions, device, passes, threads, render_passes, calls>>

SetIndexBuffer ==
    /\ Running
    /\ \E in \in SetIndexBufferInputs :
        /\ commands' = Append(commands, Command("SetIndexBuffer", in))
        /\ enc' = Step(enc, Enc_SetIndexBuffer(enc, in[1], in[2]))
        /\ inc' = Step(inc, render_pass_set_index_buffer(inc, in[1], in[2]))
    /\ UNCHANGED <<debug_assertions, device, passes, threads, render_passes, calls>>

SetVertexBuffer ==
    /\ Running
    /\ \E in \in SetVertexBufferInputs :
        /\ commands' = Append(commands, Command("SetVertexBuffer", in))
        /\ enc' = Step(enc, Enc_SetVertexBuffer(enc, in[1], in[2], in[3]))
        /\ inc' = Step(inc, render_pass_set_vertex_buffers(inc, in[1],
                                                           <<in[2]>>, <<in[3]>>))
    /\ UNCHANGED <<debug_assertions, device, passes, threads, render_passes, calls>>

SetBlendValue ==
    /\ Running
    /\ commands' = Append(commands, Command("SetBlendValue", <<1>>))
    /\ enc' = Step(enc, Enc_SetBlendValue(enc, 1))
    /\ inc' = Step(inc, render_pass_set_blend_color(inc, 1))
    /\ UNCHANGED <<debug_assertions, device, passes, threads, render_passes, calls>>

SetStencilReference ==
    /\ Running
    /\ commands' = Append(commands, Command("SetStencilReference", <<1>>))
    /\ enc' = Step(enc, Enc_SetStencilReference(enc, 1))
    /\ inc' = Step(inc, render_pass_set_stencil_reference(inc, 1))
    /\ UNCHANGED <<debug_assertions, device, passes, threads, render_passes, calls>>

SetViewport ==
    /\ Running
    /\ \E in \in SetViewportInputs :
        /\ commands' = Append(commands, Command("SetViewport", in))
        /\ enc' = Step(enc, Enc_SetViewport(enc, <<in[1], in[2], in[3], in[4]>>,
                                            <<in[5], in[6]>>))
        /\ inc' = Step(inc, render_pass_set_viewport(inc, in[1], in[2], in[3], in[4],
                                                     in[5], in[6]))
    /\ UNCHANGED <<debug_assertions, device, passes, threads, render_passes, calls>>

SetScissor ==
    /\ Running
    /\ \E in \in SetScissorInputs :
        /\ commands' = Append(commands, Command("SetScissor", in))
        /\ enc' = Step(enc, Enc_SetScissor(enc, in))
        /\ inc' = Step(inc, render_pass_set_scissor_rect(inc, in[1], in[2], in[3], in[4]))
    /\ UNCHANGED <<debug_assertions, device, passes, threads, render_passes, calls>>

Draw ==
    /\ Running
    /\ \E in \in DrawInputs :
        /\ commands' = Append(commands, Command("Draw", in))
        /\ enc' = Step(enc, Enc_Draw(enc, in[1], in[2], in[3], in[4]))
        /\ inc' = Step(inc, render_pass_draw(inc, in[1], in[2], in[3], in[4]))
    /\ UNCHANGED <<debug_assertions, device, passes, threads, render_passes, calls>>

DrawIndexed ==
    /\ Running
    /\ \E in \in DrawIndexedInputs :
        /\ commands' = Append(commands, Command("DrawIndexed", in))
        /\ enc' = Step(enc, Enc_DrawIndexed(enc, in[1], in[2], in[3], in[4], in[5]))
        /\ inc' = Step(inc, render_pass_draw_indexed(inc, in[1], in[2], in[3], in[4],
                                                     in[5]))
    /\ UNCHANGED <<debug_assertions, device, passes, threads, render_passes, calls>>

DrawIndirect ==
    /\ Running
    /\ \E in \in IndirectInputs :
        /\ commands' = Append(commands, Command("DrawIndirect", in))
        /\ enc' = Step(enc, Enc_DrawIndirect(enc, in[1], in[2]))
        /\ inc' = Step(inc, render_pass_draw_indirect(inc, in[1], in[2]))
    /\ UNCHANGED <<debug_assertions, device, passes, threads, render_passes, calls>>

DrawIndexedIndirect ==
    /\ Running
    /\ \E in \in IndirectInputs :
        /\ commands' = Append(commands, Command("DrawIndexedIndirect", in))
        /\ enc' = Step(enc, Enc_DrawIndexedIndirect(enc, in[1], in[2]))
        /\ inc' = Step(inc, render_pass_draw_indexed_indirect(inc, in[1], in[2]))
    /\ UNCHANGED <<debug_assertions, device, passes, threads, render_passes, calls>>

\* the pass ends: the encoded form returns from its command loop, the
\* incremental form is handed to render_pass_end_pass
EndPass ==
    /\ enc.pc = "commands" \/ inc.pc = "commands"
    /\ enc' = Step(enc, Enc_Return(enc))
    /\ inc' = Step(inc, render_pass_end_pass(inc))
    /\ UNCHANGED <<debug_assertions, commands, device, passes, threads, render_passes, calls>>

Next ==
    \/ BeginPass
    \/ SetBindGroup
    \/ SetPipeline
    \/ SetIndexBuffer
    \/ SetVertexBuffer
    \/ SetBlendValue
    \/ SetStencilReference
    \/ SetViewport
    \/ SetScissor
    \/ Draw
    \/ DrawIndexed
    \/ DrawIndirect
    \/ DrawIndexedIndirect
    \/ EndPass

Spec == Init /\ [][Next]_vars

----------------------------------------------------------------------------
(* Passes run one after the other on one command buffer and one device      *)

\* hub.render_passes indexed, or unregistered, with the id of a pass that
\* render_pass_end_pass has removed: the lookup panics
Storage_removed(i) == Panic(i, <<"InvalidId">>)

\* the command buffer of the incremental form, as the begin of a pass reads it
HubCommandBuffer(i) ==
    [trackers |-> i.cmb.trackers, used_swap_chain |-> i.cmb.used_swap_chain]

\* a pass begins on the command buffer, the first one or one after a pass
\* that has ended: command_encoder_run_render_pass up to its command loop,
\* and the same begin on the command buffer of the incremental form
RunPass ==
    /\ enc.pc \in {"idle", "done"}
    /\ inc.pc = enc.pc
    /\ Len(passes) < MaxPasses
    /\ \E pass \in PassesDescs :
        LET begun == Enc_Begin(enc, device, pass)
            hub == Enc_Begin([enc EXCEPT !.raw = <<>>, !.cmb = HubCommandBuffer(inc)],
                             device, pass)
        IN  /\ enc' = begun.enc
            /\ device' = begun.device
            /\ inc' = Inc_Begin(inc, hub.enc)
            /\ passes' = Append(passes, PassRecord(pass, enc, device, begun))
    /\ UNCHANGED <<debug_assertions, commands, threads, render_passes, calls>>

\* a render_pass_* entry point, or render_pass_end_pass again, is called with
\* the id of the pass that has ended
UseEndedPass ==
    /\ inc.pc = "done"
    /\ inc' = Storage_removed(inc)
    /\ UNCHANGED <<debug_assertions, commands, device, enc, passes, threads, render_passes, calls>>

PassesNext ==
    \/ RunPass
    \/ EndPass
    \/ UseEndedPass

PassesSpec == Init /\ [][PassesNext]_vars

\* the sub-buffers a command buffer holds when render_pass_end_pass finds it:
\* none, or the one it is recording into
CommandBufferRaws == { <<>>, <<<<>>>> }

\* the buffers its tracker holds: buffer 1 as a copy destination
CommandBufferUses == { <<1, "COPY_DST">> }

\* the passes of a command buffer of the incremental form that may hold no
\* sub-buffer (`match cmb.raw.last_mut()`, line 352)
EndPassInit ==
    /\ debug_assertions \in BOOLEAN
    /\ threads = [t \in ThreadIds |-> [call |-> None, held |-> 0]]
    /\ render_passes = [t \in ThreadIds |-> HubRenderPass]
    /\ calls = [t \in ThreadIds |-> <<>>]
    /\ commands = <<>>
    /\ device = [render_passes |-> {}, framebuffers |-> {}, created |-> <<>>]
    /\ passes = <<>>
    /\ \E cmb \in CommandBuffers, raw \in CommandBufferRaws :
        /\ enc = [pc |-> "idle", error |-> None, context |-> None,
                  sample_count |-> 0, state |-> None, trackers |-> TrackerSet_new,
                  raw |-> <<>>, cmb |-> cmb, begin |-> None]
        /\ inc = [pc |-> "idle", error |-> None, pass |-> None,
                  cmb |-> [raw |-> raw,
                           trackers |-> [cmb.trackers EXCEPT !.buffers = CommandBufferUses],
                           used_swap_chain |-> cmb.used_swap_chain,
                           ended |-> <<>>]]

\* the commands recorded in the passes of the command buffer
MaxEndCommands == 1

\* the passes of the command buffer, with an index buffer set in one of them
EndPassNext ==
    \/ PassesNext
    \/ Len(commands) < MaxEndCommands /\ SetIndexBuffer

EndPassSpec == EndPassInit /\ [][EndPassNext]_vars

----------------------------------------------------------------------------
(* Entry points called from several threads. An entry point takes the guards *)
(* of the hub's registries one after another in the order of its code, runs *)
(* its body holding them, and drops them when it returns. Thread t drives   *)
(* the render pass of id t; command_encoder_run_render_pass runs on the     *)
(* command buffer of the encoded form.                                      *)

\* the guards of the entry points, with those of render_pass_set_bind_group
\* taken in another order: the render passes before the bind groups
Guards_PassFirst(op) ==
    CASE op = "render_pass_end_pass" ->                          \* 340-350
            <<<<"command_buffers", "write">>, <<"render_passes", "unregister">>,
              <<"buffers", "read">>, <<"textures", "read">>>>
      [] op = "command_encoder_run_render_pass" ->               \* 387-399
            <<<<"adapters", "read">>, <<"devices", "read">>,
              <<"command_buffers", "write">>, <<"pipeline_layouts", "read">>,
              <<"bind_groups", "read">>, <<"render_pipelines", "read">>,
              <<"buffers", "read">>, <<"textures", "read">>,
              <<"texture_views", "read">>>>
      [] op = "render_pass_set_bind_group" ->                    \* 1169-1172
            <<<<"pipeline_layouts", "read">>, <<"render_passes", "write">>,
              <<"bind_groups", "read">>>>
      [] op \in {"render_pass_set_index_buffer",                 \* 1227-1228
                 "render_pass_set_vertex_buffers",               \* 1264-1265
                 "render_pass_draw_indirect",                    \* 1333-1334
                 "render_pass_draw_indexed_indirect"} ->         \* 1397-1398
            <<<<"render_passes", "write">>, <<"buffers", "read">>>>
      [] op \in {"render_pass_draw",                             \* 1304
                 "render_pass_draw_indexed",                     \* 1366
                 "render_pass_set_blend_color",                  \* 1535
                 "render_pass_set_stencil_reference",            \* 1552
                 "render_pass_set_viewport",                     \* 1574
                 "render_pass_set_scissor_rect"} ->              \* 1606
            <<<<"render_passes", "write">>>>
      \* the guard of the buffers is taken where the index format changes with
      \* an index buffer bound (1493); the model takes it in every call
      [] op = "render_pass_set_pipeline" ->                      \* 1427-1431, 1493
            <<<<"pipeline_layouts", "read">>, <<"bind_groups", "read">>,
              <<"render_passes", "write">>, <<"render_pipelines", "read">>,
              <<"buffers", "read">>>>

\* the guards an entry point takes, in the order of its code: the registry and
\* the kind of access. `unregister` locks the registry for the removal only.
Guards(op) ==
    CASE op = "render_pass_end_pass" ->                          \* 340-350
            <<<<"command_buffers", "write">>, <<"render_passes", "unregister">>,
              <<"buffers", "read">>, <<"textures", "read">>>>
      [] op = "command_encoder_run_render_pass" ->               \* 387-399
            <<<<"adapters", "read">>, <<"devices", "read">>,
              <<"command_buffers", "write">>, <<"pipeline_layouts", "read">>,
              <<"bind_groups", "read">>, <<"render_pipelines", "read">>,
              <<"buffers", "read">>, <<"textures", "read">>,
              <<"texture_views", "read">>>>
      [] op = "render_pass_set_bind_group" ->                    \* 1169-1172
            <<<<"pipeline_layouts", "read">>, <<"bind_groups", "read">>,
              <<"render_passes", "write">>>>
      [] op \in {"render_pass_set_index_buffer",                 \* 1227-1228
                 "render_pass_set_vertex_buffers",               \* 1264-1265
                 "render_pass_draw_indirect",                    \* 1333-1334
                 "render_pass_draw_indexed_indirect"} ->         \* 1397-1398
            <<<<"render_passes", "write">>, <<"buffers", "read">>>>
      [] op \in {"render_pass_draw",                             \* 1304
                 "render_pass_draw_indexed",                     \* 1366
                 "render_pass_set_blend_color",                  \* 1535
                 "render_pass_set_stencil_reference",            \* 1552
                 "render_pass_set_viewport",                     \* 1574
                 "render_pass_set_scissor_rect"} ->              \* 1606
            <<<<"render_passes", "write">>>>
      \* the guard of the buffers is taken where the index format changes with
      \* an index buffer bound (1493); the model takes it in every call
      [] op = "render_pass_set_pipeline" ->                      \* 1427-1431, 1493
            <<<<"pipeline_layouts", "read">>, <<"bind_groups", "read">>,
              <<"render_passes", "write">>, <<"render_pipelines", "read">>,
              <<"buffers", "read">>>>

\* the calls the threads make: an entry point and its arguments
Calls ==
    { Command("command_encoder_run_render_pass", <<>>),
      Command("render_pass_end_pass", <<>>),
      Command("render_pass_set_bind_group", <<0, 2, <<BIND_BUFFER_ALIGNMENT>>>>),
      Command("render_pass_set_pipeline", <<2>>),
      Command("render_pass_set_pipeline", <<3>>),
      Command("render_pass_set_index_buffer", <<1, 0>>),
      Command("render_pass_set_vertex_buffers", <<0, <<1>>, <<0>>>>),
      Command("render_pass_draw", <<3, 1, 0, 0>>),
      Command("render_pass_draw_indirect", <<1, 0>>),
      Command("render_pass_draw_indexed", <<2, 1, 1, 0, 0>>),
      Command("render_pass_draw_indexed_indirect", <<1, 0>>),
      Command("render_pass_set_blend_color", <<1>>),
      Command("render_pass_set_stencil_reference", <<1>>),
      Command("render_pass_set_viewport", <<0, 0, 4, 4, 0, 1>>),
      Command("render_pass_set_scissor_rect", <<0, 0, 2, 2>>) }

\* the body of a render_pass_* entry point on the RenderPass of the hub
Body(i, call) ==
    LET a == call.args
    IN  CASE call.op = "render_pass_end_pass" -> render_pass_end_pass(i)
          [] call.op = "render_pass_set_bind_group" ->
                render_pass_set_bind_group(i, a[1], a[2], a[3])
          [] call.op = "render_pass_set_pipeline" -> render_pass_set_pipeline(i, a[1])
          [] call.op = "render_pass_set_index_buffer" ->
                render_pass_set_index_buffer(i, a[1], a[2])
          [] call.op = "render_pass_set_vertex_buffers" ->
                render_pass_set_vertex_buffers(i, a[1], a[2], a[3])
          [] call.op = "render_pass_draw" -> render_pass_draw(i, a[1], a[2], a[3], a[4])
          [] call.op = "render_pass_draw_indirect" ->
                render_pass_draw_indirect(i, a[1], a[2])
          [] call.op = "render_pass_draw_indexed" ->
                render_pass_draw_indexed(i, a[1], a[2], a[3], a[4], a[5])
          [] call.op = "render_pass_draw_indexed_indirect" ->
                render_pass_draw_indexed_indirect(i, a[1], a[2])
          [] call.op = "render_pass_set_blend_color" ->
                render_pass_set_blend_color(i, a[1])
          [] call.op = "render_pass_set_stencil_reference" ->
                render_pass_set_stencil_reference(i, a[1])
          [] call.op = "render_pass_set_viewport" ->
                render_pass_set_viewport(i, a[1], a[2], a[3], a[4], a[5], a[6])
          [] call.op = "render_pass_set_scissor_rect" ->
                render_pass_set_scissor_rect(i, a[1], a[2], a[3], a[4])

\* the guards thread t holds
Held(t) ==
    IF threads[t].call = None
    THEN {}
    ELSE { g \in { Guards(threads[t].call[1].op)[k] : k \in 1 .. threads[t].held } :
             g[2] # "unregister" }

\* RwLock: a reader waits for a writer, a writer for every other holder
Guard_available(t, guard) ==
    \A u \in ThreadIds \ {t} :
        \A g \in Held(u) :
            g[1] = guard[1] => (g[2] = "read" /\ guard[2] = "read")

\* the guard thread t takes next, if it is inside an entry point and has not
\* taken all of them
NextGuard(t) ==
    IF threads[t].call # None /\ threads[t].held < Len(Guards(threads[t].call[1].op))
    THEN Some(Guards(threads[t].call[1].op)[threads[t].held + 1])
    ELSE None

\* thread t calls an entry point
Enter(t) ==
    /\ threads[t].call = None
    /\ Len(calls[1]) + Len(calls[2]) + Len(passes)
         + Cardinality({u \in ThreadIds : threads[u].call # None}) < MaxCalls
    /\ \E call \in Calls : threads' = [threads EXCEPT ![t] = [call |-> Some(call), held |-> 0]]
    /\ UNCHANGED <<debug_assertions, commands, device, enc, inc, passes,
                   render_passes, calls>>

\* thread t takes the next guard of its entry point, once it is available
Acquire(t) ==
    /\ NextGuard(t) # None
    /\ Guard_available(t, NextGuard(t)[1])
    /\ threads' = [threads EXCEPT ![t].held = @ + 1]
    /\ UNCHANGED <<debug_assertions, commands, device, enc, inc, passes,
                   render_passes, calls>>

\* the return of an entry point whose body works on the RenderPass of id 1,
\* whatever pass id it was called with
Return_FirstPass(t) ==
    /\ threads[t].call # None
    /\ NextGuard(t) = None
    /\ threads' = [threads EXCEPT ![t] = [call |-> None, held |-> 0]]
    /\ IF threads[t].call[1].op = "command_encoder_run_render_pass"
       THEN \E pass \in PassDescs :
              LET begun == Enc_Begin(enc, device, pass)
              IN  /\ enc.pc \in {"idle", "done"}
                  /\ enc' = Step(begun.enc, Enc_Return(begun.enc))
                  /\ device' = begun.device
                  /\ passes' = Append(passes, PassRecord(pass, enc, device, begun))
                  /\ UNCHANGED <<render_passes, calls>>
       ELSE /\ render_passes' = [render_passes EXCEPT
                    ![1] = Step(@, Body(@, threads[t].call[1]))]
            /\ calls' = [calls EXCEPT ![t] = Append(@, threads[t].call[1])]
            /\ UNCHANGED <<device, enc, passes>>
    /\ UNCHANGED <<debug_assertions, commands, inc>>

\* thread t, holding the guards of its entry point, runs the body and returns
Return(t) ==
    /\ threads[t].call # None
    /\ NextGuard(t) = None
    /\ threads' = [threads EXCEPT ![t] = [call |-> None, held |-> 0]]
    /\ IF threads[t].call[1].op = "command_encoder_run_render_pass"
       THEN \E pass \in PassDescs :
              LET begun == Enc_Begin(enc, device, pass)
              IN  /\ enc.pc \in {"idle", "done"}
                  /\ enc' = Step(begun.enc, Enc_Return(begun.enc))
                  /\ device' = begun.device
                  /\ passes' = Append(passes, PassRecord(pass, enc, device, begun))
                  /\ UNCHANGED <<render_passes, calls>>
       ELSE /\ render_passes' = [render_passes EXCEPT
                    ![t] = Step(@, Body(@, threads[t].call[1]))]
            /\ calls' = [calls EXCEPT ![t] = Append(@, threads[t].call[1])]
            /\ UNCHANGED <<device, enc, passes>>
    /\ UNCHANGED <<debug_assertions, commands, inc>>

GuardsNext == \E t \in ThreadIds : Enter(t) \/ Acquire(t) \/ Return(t)

GuardsSpec == Init /\ [][GuardsNext]_vars

----------------------------------------------------------------------------
(* Properties                                                              *)

DrawCalls == {"draw", "draw_indexed", "draw_indirect", "draw_indexed_indirect"}

DrawCommands == {"Draw", "DrawIndexed", "DrawIndirect", "DrawIndexedIndirect"}

\* this step hands a command of the kinds `ops` to the pass
Hands(ops) ==
    /\ Len(commands') = Len(commands) + 1
    /\ Last(commands').op \in ops

\* this step, the encoded form emits a draw call
EncEmitsDraw ==
    /\ enc.pc = "commands"
    /\ Len(enc'.raw) > Len(enc.raw)
    /\ Last(enc'.raw).op \in DrawCalls

\* this step, the incremental form emits a draw call
IncEmitsDraw ==
    /\ inc.pc = "commands"
    /\ Len(inc'.pass.raw) > Len(inc.pass.raw)
    /\ Last(inc'.pass.raw).op \in DrawCalls

\* a pipeline flagged BLEND_COLOR was set and no blend value was set so far
BlendColorMissing ==
    /\ \E k \in 1 .. Len(commands) :
        /\ commands[k].op = "SetPipeline"
        /\ "BLEND_COLOR" \in pipeline_guard[commands[k].args[1]].flags
    /\ ~\E k \in 1 .. Len(commands) : commands[k].op = "SetBlendValue"

\* the error of a draw whose blend color is missing, as the claim has it
\* (always MissingBlendColor) or as the binder's state decides it
BlendColorError(binder, as_claimed) ==
    IF as_claimed \/ invalid_mask(binder) = {}
    THEN <<"MissingBlendColor">>
    ELSE <<"IncompatibleBindGroup", trailing_zeros(invalid_mask(binder))>>

\* a draw is emitted only from a ready state, and a draw with the blend color
\* missing fails with the given error and emits nothing
DrawsOnlyWhenReady(as_claimed) ==
    /\ EncEmitsDraw => State_is_ready(enc.state) = <<"Ok">>
    /\ IncEmitsDraw => RenderPass_is_ready(inc.pass) = <<"Ok">>
    /\ (Hands(DrawCommands) /\ BlendColorMissing /\ enc.pc = "commands") =>
        /\ enc'.pc = "failed"
        /\ enc'.raw = enc.raw
        /\ enc'.error = BlendColorError(enc.state.binder, as_claimed)
    /\ (Hands(DrawCommands) /\ BlendColorMissing /\ inc.pc = "commands") =>
        /\ inc'.pc = "failed"
        /\ inc'.pass.raw = inc.pass.raw
        /\ inc'.error = BlendColorError(inc.pass.binder, as_claimed)

\* C1 (as amended): a backend draw call is emitted only if is_ready() is Ok
\* in the state just before the command; a draw handed after a pipeline
\* flagged BLEND_COLOR with no SetBlendValue earlier in the pass fails and
\* emits no draw call, with MissingBlendColor when the binder's invalid mask
\* is 0 and with IncompatibleBindGroup of the lowest invalid slot otherwise.
C1_DrawOnlyIfReady == [][DrawsOnlyWhenReady(FALSE)]_vars

\* C1 (as stated): ... and that draw fails with MissingBlendColor, whatever
\* the bind groups are.
C1_AlwaysMissingBlendColor == [][DrawsOnlyWhenReady(TRUE)]_vars

\* a draw has failed in both forms with MissingBlendColor
C1_Witness ==
    /\ commands # <<>>
    /\ Last(commands).op \in DrawCommands
    /\ BlendColorMissing
    /\ enc.pc = "failed" /\ enc.error = <<"MissingBlendColor">>
    /\ inc.pc = "failed" /\ inc.error = <<"MissingBlendColor">>

\* the three conditions of readiness
ReadyConditions(binder, blend_color, stencil_reference) ==
    /\ invalid_mask(binder) = {}
    /\ blend_color # "Required"
    /\ stencil_reference # "Required"

DrawErrors == {"IncompatibleBindGroup", "MissingBlendColor", "MissingStencilReference"}

\* C2: in both forms is_ready() returns Ok exactly when the binder's invalid
\* mask is 0, blend_color is not Required and stencil_reference is not
\* Required; in every other state it returns an error.
C2_IsReadyIff ==
    /\ enc.pc = "commands" =>
        IF ReadyConditions(enc.state.binder, enc.state.blend_color,
                           enc.state.stencil_reference)
        THEN State_is_ready(enc.state) = <<"Ok">>
        ELSE State_is_ready(enc.state)[1] \in DrawErrors
    /\ inc.pc = "commands" =>
        IF ReadyConditions(inc.pass.binder, inc.pass.blend_color_status,
                           inc.pass.stencil_reference_status)
        THEN RenderPass_is_ready(inc.pass) = <<"Ok">>
        ELSE RenderPass_is_ready(inc.pass)[1] \in DrawErrors

\* both forms are in a state that only the stencil reference keeps from ready
C2_Witness ==
    /\ enc.pc = "commands" /\ inc.pc = "commands"
    /\ invalid_mask(enc.state.binder) = {}
    /\ enc.state.blend_color # "Required"
    /\ enc.state.stencil_reference = "Required"
    /\ State_is_ready(enc.state) = <<"MissingStencilReference">>
    /\ RenderPass_is_ready(inc.pass) = <<"MissingStencilReference">>

\* C3: every Draw that emits a backend draw call satisfies
\* first_vertex + vertex_count <= vertex_limit and
\* first_instance + instance_count <= instance_limit, the sums being the true
\* integer sums of the u32 operands.
C3_DrawWithinLimits ==
    [][/\ (Hands({"Draw"}) /\ EncEmitsDraw) =>
            LET a == Last(commands').args
            IN  /\ a[3] + a[1] <= enc.state.vertex.vertex_limit
                /\ a[4] + a[2] <= enc.state.vertex.instance_limit
       /\ (Hands({"Draw"}) /\ IncEmitsDraw) =>
            LET a == Last(commands').args
            IN  /\ a[3] + a[1] <= inc.pass.vertex_state.vertex_limit
                /\ a[4] + a[2] <= inc.pass.vertex_state.instance_limit]_vars

\* C4: every DrawIndexed that emits draw_indexed satisfies
\* first_index + index_count <= index.limit and
\* first_instance + instance_count <= instance_limit (base_vertex and
\* vertex_limit take no part in the condition).
C4_DrawIndexedWithinLimits ==
    [][/\ (Hands({"DrawIndexed"}) /\ EncEmitsDraw) =>
            LET a == Last(commands').args
            IN  /\ a[3] + a[1] <= enc.state.index.limit
                /\ a[5] + a[2] <= enc.state.vertex.instance_limit
       /\ (Hands({"DrawIndexed"}) /\ IncEmitsDraw) =>
            LET a == Last(commands').args
            IN  /\ a[3] + a[1] <= inc.pass.index_state.limit
                /\ a[5] + a[2] <= inc.pass.vertex_state.instance_limit]_vars

\* the number of calls of `op` in a log
Count(raw, op) == Cardinality({k \in 1 .. Len(raw) : raw[k].op = op})

\* C5: a call of command_encoder_run_render_pass that returns normally has
\* emitted exactly one begin_render_pass, first, and exactly one
\* end_render_pass, last, with the calls of the commands in between.
C5_BeginCommandsEnd ==
    enc.pc = "done" =>
        /\ Count(enc.raw, "begin_render_pass") = 1
        /\ enc.raw[1].op = "begin_render_pass"
        /\ Count(enc.raw, "end_render_pass") = 1
        /\ Last(enc.raw).op = "end_render_pass"

\* every usage of the pass's trackers is held by the command buffer's
Merged(pass_trackers, cmb_trackers) ==
    /\ pass_trackers.buffers \subseteq cmb_trackers.buffers
    /\ pass_trackers.bind_groups \subseteq cmb_trackers.bind_groups
    /\ \A t \in pass_trackers.textures :
        \E o \in cmb_trackers.textures : o.id = t.id /\ o.last = t.last

\* C6: when command_encoder_run_render_pass returns normally, every usage of
\* the pass-local TrackerSet has been merged into the trackers of the owning
\* command buffer.
C6_TrackersMerged ==
    enc.pc = "done" => Merged(enc.trackers, enc.cmb.trackers)

\* C7: for the same commands the two forms reach the same binder, blend
\* color, stencil reference, index and vertex state after every command, fail
\* on the same commands and emit the same backend calls.
C7_FormsAgree ==
    /\ (enc.pc = "failed") <=> (inc.pc = "failed")
    /\ (enc.pc = "commands" /\ inc.pc = "commands") =>
        /\ enc.state.binder = inc.pass.binder
        /\ enc.state.blend_color = inc.pass.blend_color_status
        /\ enc.state.stencil_reference = inc.pass.stencil_reference_status
        /\ enc.state.index = inc.pass.index_state
        /\ enc.state.vertex = inc.pass.vertex_state
        /\ enc.raw = inc.pass.raw

\* the minimum of total_size / stride over the slots of the rate with a
\* stride, u32::MAX when there is none
LimitOf(inputs, rate) ==
    LET slots == {k \in 1 .. Len(inputs) : inputs[k].stride > 0 /\ inputs[k].rate = rate}
        sizes == {inputs[k].total_size \div inputs[k].stride : k \in slots}
    IN  IF slots = {} THEN U32_MAX
        ELSE CHOOSE m \in sizes : \A x \in sizes : m <= x

\* C8: in every reachable state of a pass, its initial state included,
\* vertex_limit and instance_limit are the minimum of total_size / stride over
\* the slots of their rate with stride > 0, and u32::MAX when there is none.
C8_VertexLimits ==
    /\ enc.pc = "commands" =>
        /\ enc.state.vertex.vertex_limit = LimitOf(enc.state.vertex.inputs, "Vertex")
        /\ enc.state.vertex.instance_limit = LimitOf(enc.state.vertex.inputs, "Instance")
    /\ inc.pc = "commands" =>
        /\ inc.pass.vertex_state.vertex_limit =
                LimitOf(inc.pass.vertex_state.inputs, "Vertex")
        /\ inc.pass.vertex_state.instance_limit =
                LimitOf(inc.pass.vertex_state.inputs, "Instance")

\* (end - start) >> shift(format) of a bound view, 0 when none is bound
IndexLimitOf(index) ==
    IF index.bound_buffer_view = None
    THEN 0
    ELSE (index.bound_buffer_view[3] - index.bound_buffer_view[2])
            \div (2 ^ IndexShift(index.format))

\* C9: in every reachable state of a pass, index.limit is
\* (end - start) >> shift(index.format) when a view start..end is bound and 0
\* when none is.
C9_IndexLimit ==
    /\ enc.pc = "commands" => enc.state.index.limit = IndexLimitOf(enc.state.index)
    /\ inc.pc = "commands" => inc.pass.index_state.limit = IndexLimitOf(inc.pass.index_state)

\* the last SetIndexBuffer handed to the pass
LastSetIndexBuffer ==
    LET ks == {k \in 1 .. Len(commands) : commands[k].op = "SetIndexBuffer"}
    IN  commands[CHOOSE k \in ks : \A j \in ks : j <= k]

\* C10: a SetPipeline whose index format differs from the current one, after a
\* SetIndexBuffer{B, offset}, leaves limit = (B.size - offset) >> shift(new
\* format) and emits a new bind_index_buffer.
C10_RebindOnFormatChange ==
    [][(/\ Hands({"SetPipeline"})
        /\ \E k \in 1 .. Len(commands) : commands[k].op = "SetIndexBuffer"
        /\ enc.pc = "commands" /\ enc'.pc = "commands"
        /\ enc'.state.index.format # enc.state.index.format) =>
            LET b == LastSetIndexBuffer.args
            IN  /\ enc'.state.index.limit =
                    (buffer_guard[b[1]].size - b[2])
                        \div (2 ^ IndexShift(enc'.state.index.format))
                /\ Count(enc'.raw, "bind_index_buffer") =
                    Count(enc.raw, "bind_index_buffer") + 1]_vars

\* what the claim says of the state after SetVertexBuffer{index, buffer, offset}
SetVertexBufferPost(inputs, vertex_limit, a) ==
    /\ a[1] < MAX_VERTEX_BUFFERS
    /\ inputs[a[1] + 1].total_size = buffer_guard[a[2]].size - a[3]
    /\ vertex_limit = LimitOf(inputs, "Vertex")

\* C11: after every successful SetVertexBuffer{index i, buffer, offset},
\* inputs[i].total_size = buffer.size - offset and vertex_limit is the minimum
\* of total_size / stride over the slots with stride > 0 and rate Vertex.
C11_SetVertexBufferPost ==
    [][/\ (Hands({"SetVertexBuffer"}) /\ enc.pc = "commands" /\ enc'.pc = "commands") =>
            SetVertexBufferPost(enc'.state.vertex.inputs,
                                enc'.state.vertex.vertex_limit, Last(commands').args)
       /\ (Hands({"SetVertexBuffer"}) /\ inc.pc = "commands" /\ inc'.pc = "commands") =>
            SetVertexBufferPost(inc'.pass.vertex_state.inputs,
                                inc'.pass.vertex_state.vertex_limit,
                                Last(commands').args)]_vars

\* the order Unused -> Required -> Set of an OptionalState
Rank(status) == CASE status = "Unused" -> 0 [] status = "Required" -> 1 [] OTHER -> 2

\* one step of an OptionalState of a pass: it never moves back, becomes Set
\* only by its set command, and becomes Required only by a SetPipeline whose
\* pipeline carries its flag
ForwardOnly(before, after, set_command, flag) ==
    /\ Rank(after) >= Rank(before)
    /\ (after = "Set" /\ before # "Set") => Hands({set_command})
    /\ (after = "Required" /\ before # "Required") =>
        /\ before = "Unused"
        /\ Hands({"SetPipeline"})
        /\ flag \in pipeline_guard[Last(commands').args[1]].flags
    /\ Hands({set_command}) => after = "Set"

\* C12: over the commands of a pass, blend_color and stencil_reference only
\* move forward in the order Unused -> Required -> Set: require(true) changes
\* Unused to Required and nothing else, require(false) changes nothing, only
\* SetBlendValue / SetStencilReference produce Set, no SetPipeline lowers a
\* state, and a draw handed while a state is Required fails and emits nothing.
C12_OptionalStateForward ==
    [][/\ \A s \in {"Unused", "Required", "Set"} :
            /\ OptionalState_require(s, TRUE) = (IF s = "Unused" THEN "Required" ELSE s)
            /\ OptionalState_require(s, FALSE) = s
       /\ (enc.pc = "commands" /\ enc'.pc = "commands") =>
            /\ ForwardOnly(enc.state.blend_color, enc'.state.blend_color,
                           "SetBlendValue", "BLEND_COLOR")
            /\ ForwardOnly(enc.state.stencil_reference, enc'.state.stencil_reference,
                           "SetStencilReference", "STENCIL_REFERENCE")
       /\ (inc.pc = "commands" /\ inc'.pc = "commands") =>
            /\ ForwardOnly(inc.pass.blend_color_status, inc'.pass.blend_color_status,
                           "SetBlendValue", "BLEND_COLOR")
            /\ ForwardOnly(inc.pass.stencil_reference_status,
                           inc'.pass.stencil_reference_status,
                           "SetStencilReference", "STENCIL_REFERENCE")
       /\ (/\ Hands(DrawCommands)
           /\ enc.pc = "commands"
           /\ "Required" \in {enc.state.blend_color, enc.state.stencil_reference}) =>
            enc'.pc = "failed" /\ enc'.raw = enc.raw
       /\ (/\ Hands(DrawCommands)
           /\ inc.pc = "commands"
           /\ "Required" \in {inc.pass.blend_color_status,
                              inc.pass.stencil_reference_status}) =>
            inc'.pc = "failed" /\ inc'.pass.raw = inc.pass.raw]_vars

\* a pipeline with BLEND_COLOR, then one without the flag, then a draw: the
\* draw has failed in both forms for the blend color the first one required
C12_Witness ==
    /\ Len(commands) = 3
    /\ commands[1].op = "SetPipeline"
    /\ "BLEND_COLOR" \in pipeline_guard[commands[1].args[1]].flags
    /\ commands[2].op = "SetPipeline"
    /\ "BLEND_COLOR" \notin pipeline_guard[commands[2].args[1]].flags
    /\ commands[3].op \in DrawCommands
    /\ enc.pc = "failed" /\ enc.error = <<"MissingBlendColor">>
    /\ enc.state.blend_color = "Required"
    /\ inc.pc = "failed" /\ inc.error = <<"MissingBlendColor">>
    /\ inc.pass.blend_color_status = "Required"

\* the passes render_pass_end_pass has ended so far
EndedPasses ==
    Cardinality({k \in 1 .. Len(passes) : passes[k].began})
        - (IF inc.pc = "commands" THEN 1 ELSE 0)

\* C13: a RenderPass object is consumed exactly once: render_pass_end_pass
\* removes the pass from the registry and pushes its raw buffer, so that the
\* command buffer's raw list grows by exactly one entry per ended pass; a
\* later render_pass_* call or a second render_pass_end_pass with the id of
\* the ended pass fails and emits no backend call.
C13_ConsumedOnce ==
    [][/\ Len(inc.cmb.raw) = 1 + EndedPasses
       /\ (inc.pc = "commands" /\ inc'.pc = "done") =>
            /\ Len(inc'.cmb.raw) = Len(inc.cmb.raw) + 1
            /\ Last(inc'.cmb.raw) = Append(inc.pass.raw, Call("end_render_pass", <<>>))
       /\ (inc.pc = "done" /\ passes' = passes) =>
            /\ inc'.pc = "failed"
            /\ inc'.cmb = inc.cmb
            /\ inc'.pass = inc.pass]_vars

\* two passes have ended and the id of the second one was used again
C13_Witness ==
    /\ Len(passes) = 2
    /\ inc.pc = "failed" /\ inc.error = <<"InvalidId">>
    /\ Len(inc.cmb.raw) = 3
    /\ Last(Last(inc.cmb.raw)).op = "end_render_pass"

\* the swap-chain views among the color attachments and resolve targets
SwapChainViews(pass) ==
    {v \in {pass.color_attachments[k].attachment :
                k \in 1 .. Len(pass.color_attachments)}
           \cup {ResolveTargets(pass)[k] : k \in 1 .. Len(ResolveTargets(pass))} :
        view_guard[v].inner.kind = "SwapChain"}

\* pass k attaches a swap-chain view and finds the command buffer holding
\* the swap-chain view of an earlier pass
AfterSwapChainPass(k) ==
    /\ passes[k].used_swap_chain # None
    /\ SwapChainViews(passes[k].pass) # {}

\* pass k attaches no other swap-chain view than the one the command buffer holds
ReusesSwapChain(k) ==
    /\ AfterSwapChainPass(k)
    /\ SwapChainViews(passes[k].pass) = {passes[k].used_swap_chain[1]}

\* C14 (as amended): a later pass on the same command buffer that attaches
\* the swap-chain view S an earlier pass of that command buffer attached is
\* not stopped by the swap-chain assertions and reaches begin_render_pass; a
\* later pass that attaches another swap-chain view fails before
\* begin_render_pass.
C14_SameSwapChainAccepted ==
    \A k \in 1 .. Len(passes) :
        AfterSwapChainPass(k) =>
            IF ReusesSwapChain(k)
            THEN passes[k].began /\ passes[k].error = None
            ELSE ~passes[k].began /\ passes[k].error = <<"SwapChainMisuse">>

\* C14 (as stated): a second pass on the same command buffer that attaches
\* the swap-chain view S already attached by an earlier pass fails with an
\* assertion before begin_render_pass is emitted.
C14_SameSwapChainFails ==
    \A k \in 1 .. Len(passes) :
        ReusesSwapChain(k) => ~passes[k].began /\ passes[k].error # None

\* the second pass of the command buffer attaches the swap-chain view of the
\* first and has begun
C14_Witness ==
    /\ Len(passes) = 2
    /\ passes[1].began /\ SwapChainViews(passes[1].pass) # {}
    /\ ReusesSwapChain(2)
    /\ enc.pc = "commands"
    /\ Count(enc.raw, "begin_render_pass") = 2

\* C15: over the lifetime of a command buffer, used_swap_chain once set to a
\* view is never replaced; every swap-chain-backed color or resolve attachment
\* of every pass that reaches begin_render_pass is that one view; and a pass
\* attaching any other swap-chain view fails before begin_render_pass.
C15_OneSwapChainView ==
    [][/\ enc.cmb.used_swap_chain # None =>
            enc'.cmb.used_swap_chain = enc.cmb.used_swap_chain
       /\ \A k \in 1 .. Len(passes') :
            LET views == SwapChainViews(passes'[k].pass)
            IN  /\ (passes'[k].began /\ views # {}) =>
                    /\ enc'.cmb.used_swap_chain # None
                    /\ views = {enc'.cmb.used_swap_chain[1]}
                /\ (/\ passes'[k].used_swap_chain # None
                    /\ ~(views \subseteq {passes'[k].used_swap_chain[1]})) =>
                    ~passes'[k].began]_vars

\* a pass resolved into the swap-chain view, a later pass of the command
\* buffer has begun with the same view as its color attachment, and the
\* command buffer still holds the view and framebuffer of the first
C15_Witness ==
    /\ Len(passes) = 2
    /\ passes[1].began /\ passes[2].began
    /\ passes[1].pass # passes[2].pass
    /\ passes[1].pass.color_attachments[1].resolve_target # None
    /\ SwapChainViews(passes[1].pass) = SwapChainViews(passes[2].pass)
    /\ passes[2].used_swap_chain # None
    /\ enc.cmb.used_swap_chain = passes[2].used_swap_chain
    /\ SwapChainViews(passes[2].pass) = {enc.cmb.used_swap_chain[1]}

\* the views of a FramebufferKey
KeyViews(fb_key) ==
    {fb_key.colors[k] : k \in 1 .. Len(fb_key.colors)}
        \cup {fb_key.resolves[k] : k \in 1 .. Len(fb_key.resolves)}
        \cup {fb_key.depth_stencil[k] : k \in 1 .. Len(fb_key.depth_stencil)}

\* C16: every pass with a swap-chain-backed attachment uses a framebuffer
\* created for that pass, and the framebuffer cache of the device never gains
\* an entry for a FramebufferKey that contains a swap-chain view.
C16_SwapChainBypassesCache ==
    /\ \A fb_key \in device.framebuffers :
        \A v \in KeyViews(fb_key) : view_guard[v].inner.kind # "SwapChain"
    /\ \A k \in 1 .. Len(passes) :
        (passes[k].began /\ SwapChainViews(passes[k].pass) # {}) =>
            /\ passes[k].fb_key \notin passes[k].framebuffers
            /\ \E j \in 1 .. Len(passes[k].created) :
                passes[k].created[j] = <<"create_framebuffer", passes[k].fb_key>>

\* color attachment j of pass k is the first use of its view in the command
\* buffer: the view tracker of the command buffer did not hold it
FirstUse(k, j) ==
    /\ passes[k].pass.color_attachments[j].attachment \notin passes[k].views
    /\ \A i \in 1 .. j - 1 :
        passes[k].pass.color_attachments[i].attachment #
            passes[k].pass.color_attachments[j].attachment

\* C17: for a swap-chain color attachment the RenderPassKey layouts are
\* Undefined..Present when the view is used for the first time in this
\* command buffer and Present..Present on every later use.
C17_SwapChainLayouts ==
    \A k \in 1 .. Len(passes) :
        passes[k].began =>
            \A j \in 1 .. Len(passes[k].pass.color_attachments) :
                view_guard[passes[k].pass.color_attachments[j].attachment].inner.kind
                        = "SwapChain" =>
                    passes[k].rp_key[1].colors[j].layouts =
                        IF FirstUse(k, j) THEN <<"Undefined", "Present">>
                                          ELSE <<"Present", "Present">>

\* the swap-chain view is the color attachment of two passes of the command
\* buffer: Undefined..Present in the first, Present..Present in the second
C17_Witness ==
    /\ Len(passes) >= 2
    /\ passes[1].began /\ passes[2].began
    /\ Len(passes[1].pass.color_attachments) = 1
    /\ passes[1].pass.color_attachments[1].attachment \in SwapChainViews(passes[1].pass)
    /\ passes[2].pass = passes[1].pass
    /\ passes[1].rp_key[1].colors[1].layouts = <<"Undefined", "Present">>
    /\ passes[2].rp_key[1].colors[1].layouts = <<"Present", "Present">>

\* the usage the command buffer tracked, before pass k, for the textures of
\* the views the pass attaches
TrackedUsage(k) ==
    {t \in passes[k].textures :
        \E v \in KeyViews(passes[k].fb_key) : view_guard[v].inner.source_id = t.id}

\* passes k - 1 and k have structurally equal descriptors and both have begun
EqualPasses(k) ==
    /\ k > 1
    /\ passes[k].pass = passes[k - 1].pass
    /\ passes[k - 1].began /\ passes[k].began

\* the second of two equal passes has the keys of the first and creates nothing
SecondHitsCaches(k) ==
    /\ passes[k].rp_key = passes[k - 1].rp_key
    /\ passes[k].fb_key = passes[k - 1].fb_key
    /\ passes[k].created = <<>>

\* C18 (as amended): two structurally equal StandaloneRenderPasses without
\* swap-chain attachments, run one after the other with the same tracked
\* usage of the attached textures, produce equal RenderPassKeys and equal
\* FramebufferKeys, and the second run hits both device caches.
C18_NativeEqualPassesHitCaches ==
    \A k \in 1 .. Len(passes) :
        (/\ EqualPasses(k)
         /\ SwapChainViews(passes[k].pass) = {}
         /\ TrackedUsage(k) = TrackedUsage(k - 1)) => SecondHitsCaches(k)

\* C18 (as stated): any two structurally equal StandaloneRenderPasses run one
\* after the other produce equal keys and the second hits both caches.
C18_EqualPassesHitCaches ==
    \A k \in 1 .. Len(passes) : EqualPasses(k) => SecondHitsCaches(k)

\* a pass with a color and a depth-stencil attachment has run twice: the
\* first run created a render pass and a framebuffer, the second nothing
C18_Witness ==
    /\ Len(passes) >= 2
    /\ EqualPasses(2)
    /\ passes[2].pass.depth_stencil_attachment # None
    /\ Len(passes[1].created) = 2
    /\ SecondHitsCaches(2)

\* the number of calls of `op` for `key` in the log of the device
Created(op, key) ==
    Cardinality({j \in 1 .. Len(device.created) : device.created[j] = <<op, key>>})

\* pass k takes its framebuffer from the cache of the device
CachedPath(k) ==
    passes[k].used_swap_chain # None \/ SwapChainViews(passes[k].pass) = {}

\* the number of create_framebuffer calls for `key` by passes on the cached path
CreatedForCache(key) ==
    Cardinality({k \in 1 .. Len(passes) :
        /\ CachedPath(k)
        /\ \E j \in 1 .. Len(passes[k].created) :
            passes[k].created[j] = <<"create_framebuffer", key>>})

\* C19: after any sequence of passes on one device the render-pass cache
\* holds exactly one backend render pass per RenderPassKey that reached the
\* cache without failing, create_render_pass was called exactly once for each
\* such key, and no entry is ever replaced or removed; the same holds for the
\* framebuffer cache and the FramebufferKeys of passes on the cached path.
C19_CachesCreateOnMiss ==
    [][/\ \A r1, r2 \in device.render_passes : r1.key = r2.key => r1 = r2
       /\ \A r \in device.render_passes : Created("create_render_pass", r.key) = 1
       /\ \A j \in 1 .. Len(device.created) :
            device.created[j][1] = "create_render_pass" =>
                \E r \in device.render_passes : r.key = device.created[j][2]
       /\ \A k \in 1 .. Len(passes) :
            passes[k].began =>
                /\ \E r \in device.render_passes : r.key = passes[k].rp_key[1]
                /\ CachedPath(k) => passes[k].fb_key \in device.framebuffers
       /\ \A fb_key \in device.framebuffers : CreatedForCache(fb_key) = 1
       /\ device.render_passes \subseteq device'.render_passes
       /\ device.framebuffers \subseteq device'.framebuffers]_vars

\* three passes have begun on the device, the third one from both caches,
\* which hold two render passes and two framebuffers
C19_Witness ==
    /\ Len(passes) = 3
    /\ \A k \in 1 .. 3 : passes[k].began /\ CachedPath(k)
    /\ passes[1].created # <<>> /\ passes[2].created # <<>>
    /\ passes[3].created = <<>>
    /\ Cardinality(device.render_passes) = 2
    /\ Cardinality(device.framebuffers) = 2

\* the extents of the color attachments, resolve targets and depth-stencil
\* attachment of pass k
Extents(k) == {view_guard[v].extent : v \in KeyViews(passes[k].fb_key)}

\* C20: for every pass that reaches begin_render_pass, all color attachments,
\* all resolve targets and the depth-stencil attachment have the same extent;
\* a pass with any differing extent fails before begin_render_pass.
C20_OneExtent ==
    \A k \in 1 .. Len(passes) :
        /\ passes[k].began => Cardinality(Extents(k)) = 1
        /\ Cardinality(Extents(k)) > 1 =>
            ~passes[k].began /\ passes[k].error = <<"AttachmentExtentMismatch">>

\* a pass with a color and a depth-stencil attachment of one extent has
\* begun, and a later pass whose resolve target has another extent than its
\* color attachment has failed before begin_render_pass
C20_Witness ==
    /\ Len(passes) = 2
    /\ passes[1].began
    /\ passes[1].pass.depth_stencil_attachment # None
    /\ Cardinality(KeyViews(passes[1].fb_key)) = 2
    /\ ~passes[2].began
    /\ passes[2].fb_key.resolves # <<>>
    /\ Cardinality(Extents(2)) = 2
    /\ passes[2].error = <<"AttachmentExtentMismatch">>
    /\ Count(enc.raw, "begin_render_pass") = 1

\* C21: for every pass that reaches begin_render_pass with at least one
\* resolve target, every resolve target has samples = 1 and every color
\* attachment carrying a resolve target has samples > 1, whether the backend
\* render pass was created for the pass or served from the device cache.
C21_ResolveSamples ==
    \A k \in 1 .. Len(passes) :
        (passes[k].began /\ passes[k].fb_key.resolves # <<>>) =>
            /\ \A j \in 1 .. Len(passes[k].fb_key.resolves) :
                view_guard[passes[k].fb_key.resolves[j]].samples = 1
            /\ \A j \in 1 .. Len(passes[k].pass.color_attachments) :
                passes[k].pass.color_attachments[j].resolve_target # None =>
                    view_guard[passes[k].pass.color_attachments[j].attachment].samples > 1

\* a pass with a resolve target has begun on a render pass it created, and a
\* later pass with a resolve target has begun on a render pass from the cache
C21_Witness ==
    /\ Len(passes) >= 2
    /\ passes[1].began /\ passes[1].fb_key.resolves # <<>>
    /\ \E j \in 1 .. Len(passes[1].created) :
        passes[1].created[j][1] = "create_render_pass"
    /\ passes[2].began /\ passes[2].fb_key.resolves # <<>>
    /\ \A j \in 1 .. Len(passes[2].created) :
        passes[2].created[j][1] # "create_render_pass"

\* the textures backing the attachments of pass k: the source textures of
\* its Native views (a swap-chain view has no texture in the hub)
BackingTextures(k) ==
    {view_guard[v].inner.source_id :
        v \in {w \in KeyViews(passes[k].fb_key) : view_guard[w].inner.kind = "Native"}}

----------------------------------------------------------------------------
\* the pipeline handed by this step does not fit the pass: its pass context
\* is not compatible with the context, or its sample count differs
UnfitPipeline(context, sample_count) ==
    LET pipeline == pipeline_guard[Last(commands').args[1]]
    IN  \/ ~compatible(context, pipeline.pass_context)
        \/ pipeline.sample_count # sample_count

\* the state a SetPipeline of the encoded form works on
Enc_PipelineState(e) ==
    <<e.raw, e.state.blend_color, e.state.stencil_reference, e.state.binder,
      e.state.index, e.state.vertex>>

\* the state a SetPipeline of the incremental form works on
Inc_PipelineState(i) ==
    <<i.pass.raw, i.pass.blend_color_status, i.pass.stencil_reference_status,
      i.pass.binder, i.pass.index_state, i.pass.vertex_state>>

\* C23: SetPipeline with a pipeline whose pass context is not compatible with
\* the pass's, or whose sample count differs from the pass's, is fatal, and
\* at the failure the command has emitted no backend call and has changed
\* none of blend color, stencil reference, binder, index and vertex state.
C23_UnfitPipelineFatal ==
    [][Hands({"SetPipeline"}) =>
        /\ (enc.pc = "commands" /\ UnfitPipeline(enc.context, enc.sample_count)) =>
              /\ enc'.pc = "failed"
              /\ Enc_PipelineState(enc') = Enc_PipelineState(enc)
        /\ (inc.pc = "commands"
              /\ UnfitPipeline(inc.pass.context, inc.pass.sample_count)) =>
              /\ inc'.pc = "failed"
              /\ Inc_PipelineState(inc') = Inc_PipelineState(inc)]_vars

\* a pipeline was set, a blend value given and an index buffer bound, and then
\* a pipeline of another sample count failed in both forms
C23_Witness ==
    /\ Len(commands) = 3
    /\ commands[1].op = "SetPipeline"
    /\ commands[2].op = "SetIndexBuffer"
    /\ commands[3] = Command("SetPipeline", <<4>>)
    /\ enc.pc = "failed" /\ enc.error = <<"AttachmentSampleCountMismatch">>
    /\ inc.pc = "failed" /\ inc.error = <<"AttachmentSampleCountMismatch">>
    /\ enc.state.binder.pipeline_layout_id # None
    /\ enc.state.index.bound_buffer_view # None

\* a pipeline of another pass context failed in both forms
C23_WitnessContext ==
    /\ Len(commands) = 2
    /\ commands[1].op = "SetPipeline"
    /\ commands[2] = Command("SetPipeline", <<5>>)
    /\ enc.pc = "failed" /\ enc.error = <<"PassContextIncompatible">>
    /\ inc.pc = "failed" /\ inc.error = <<"PassContextIncompatible">>


----------------------------------------------------------------------------
\* the dynamic offsets the SetBindGroup handed by this step selects
HandedOffsets ==
    SubSeq(PassOffsets, Last(commands').args[3] + 1, Last(commands').args[4])

\* the offsets handed by this step are misaligned, or they are not as many
\* as the dynamic bindings of the bind group
BadOffsets ==
    \/ Misaligned(HandedOffsets)
    \/ Len(HandedOffsets) # bind_group_guard[Last(commands').args[2]].dynamic_count

\* C24: with debug assertions enabled, SetBindGroup with a dynamic offset that
\* is not a multiple of BIND_BUFFER_ALIGNMENT, or with another number of
\* offsets than bind_group.dynamic_count, is fatal: no
\* bind_graphics_descriptor_sets is emitted and the binder is left unchanged.
C24_BadOffsetsFatal ==
    [][(Hands({"SetBindGroup"}) /\ debug_assertions /\ BadOffsets) =>
        /\ enc.pc = "commands" =>
              /\ enc'.pc = "failed"
              /\ enc'.raw = enc.raw
              /\ enc'.state.binder = enc.state.binder
        /\ inc.pc = "commands" =>
              /\ inc'.pc = "failed"
              /\ inc'.pass.raw = inc.pass.raw
              /\ inc'.pass.binder = inc.pass.binder]_vars

\* with a pipeline set that expects the group's layout at slot 0, a
\* SetBindGroup with the offsets <<4, 1>> failed in both forms
C24_Witness ==
    /\ debug_assertions
    /\ Len(commands) = 2
    /\ commands[1] = Command("SetPipeline", <<3>>)
    /\ commands[2] = Command("SetBindGroup", <<0, 2, 0, 2>>)
    /\ enc.pc = "failed" /\ enc.error = <<"MisalignedDynamicOffset">>
    /\ inc.pc = "failed" /\ inc.error = <<"DynamicCountMismatch">>

\* a SetBindGroup with the one misaligned offset <<1>> failed in both forms
C24_WitnessMisaligned ==
    /\ debug_assertions
    /\ Len(commands) = 2
    /\ commands[1] = Command("SetPipeline", <<3>>)
    /\ commands[2] = Command("SetBindGroup", <<0, 2, 1, 2>>)
    /\ enc.pc = "failed" /\ enc.error = <<"MisalignedDynamicOffset">>
    /\ inc.pc = "failed" /\ inc.error = <<"MisalignedDynamicOffset">>


----------------------------------------------------------------------------
\* the one order of the hub's registries
GuardOrder ==
    <<"adapters", "devices", "command_buffers", "pipeline_layouts", "bind_groups",
      "render_passes", "render_pipelines", "buffers", "textures", "texture_views">>

GuardRank(registry) == CHOOSE k \in 1 .. Len(GuardOrder) : GuardOrder[k] = registry

\* thread t is inside an entry point and waits for a guard another thread holds
Waits(t) == NextGuard(t) # None /\ ~Guard_available(t, NextGuard(t)[1])

\* C25: every entry point takes the hub's guards in an order consistent with
\* the one order adapters, devices, command_buffers, pipeline_layouts,
\* bind_groups, render_passes, render_pipelines, buffers, textures,
\* texture_views: the guard a thread takes next ranks above every guard it has
\* taken. So concurrently running entry points never deadlock on the guards:
\* the threads inside an entry point are never all waiting.
C25_GuardOrderNoDeadlock ==
    /\ \A t \in ThreadIds :
          threads[t].call # None =>
            \A k \in 1 .. Len(Guards(threads[t].call[1].op)) - 1 :
                GuardRank(Guards(threads[t].call[1].op)[k][1])
                  < GuardRank(Guards(threads[t].call[1].op)[k + 1][1])
    /\ (\E t \in ThreadIds : threads[t].call # None) =>
          \E t \in ThreadIds : threads[t].call # None /\ ~Waits(t)

\* thread 1 is inside render_pass_end_pass and holds the guard of the command
\* buffers; thread 2 has called render_pass_end_pass and waits for that guard
C25_Witness ==
    /\ threads[1].call = Some(Command("render_pass_end_pass", <<>>))
    /\ threads[1].held = 3
    /\ threads[2].call = Some(Command("render_pass_end_pass", <<>>))
    /\ threads[2].held = 0
    /\ Waits(2)


----------------------------------------------------------------------------
\* the RenderPass after the calls `cs` were made on it one after the other
RECURSIVE RunAlone(_, _)
RunAlone(i, cs) ==
    IF cs = <<>>
    THEN i
    ELSE RunAlone(Step(i, Body(i, Head(cs))), Tail(cs))

\* the threads whose entry point holds the write guard of the render passes
InBody == { t \in ThreadIds : <<"render_passes", "write">> \in Held(t) }

C26_WitnessWaits ==
    /\ threads[1].call = Some(Command("render_pass_draw", <<3, 1, 0, 0>>))
    /\ InBody = {1}
    /\ threads[2].call = Some(Command("render_pass_set_blend_color", <<1>>))
    /\ Waits(2)


----------------------------------------------------------------------------
\* the one error of a state that is not ready, by priority: the lowest slot of
\* the invalid mask, else the blend color, else the stencil reference
PriorityError(binder, blend_color, stencil_reference) ==
    IF invalid_mask(binder) # {}
    THEN <<"IncompatibleBindGroup",
           CHOOSE slot \in invalid_mask(binder) :
               ~\E lower \in invalid_mask(binder) : lower < slot>>
    ELSE IF blend_color = "Required"
         THEN <<"MissingBlendColor">>
         ELSE <<"MissingStencilReference">>

\* C27: when is_ready() fails it reports IncompatibleBindGroup with the index
\* of the lowest set bit of the invalid mask whenever the mask is nonzero,
\* otherwise MissingBlendColor when the blend color is Required, otherwise
\* MissingStencilReference: exactly one error, in that priority.
C27_ErrorPriority ==
    /\ (enc.pc = "commands" /\ State_is_ready(enc.state) # <<"Ok">>) =>
          State_is_ready(enc.state) =
              PriorityError(enc.state.binder, enc.state.blend_color,
                            enc.state.stencil_reference)
    /\ (inc.pc = "commands" /\ RenderPass_is_ready(inc.pass) # <<"Ok">>) =>
          RenderPass_is_ready(inc.pass) =
              PriorityError(inc.pass.binder, inc.pass.blend_color_status,
                            inc.pass.stencil_reference_status)

\* slot 0 holds the group the pipeline expects and slot 1 does not, and both
\* the blend color and the stencil reference are Required: is_ready() reports
\* the bind group of slot 1
C27_Witness ==
    /\ enc.pc = "commands" /\ inc.pc = "commands"
    /\ invalid_mask(enc.state.binder) = {1}
    /\ enc.state.blend_color = "Required"
    /\ enc.state.stencil_reference = "Required"
    /\ State_is_ready(enc.state) = <<"IncompatibleBindGroup", 1>>
    /\ RenderPass_is_ready(inc.pass) = <<"IncompatibleBindGroup", 1>>

\* no bind group is missing and both the blend color and the stencil
\* reference are Required: is_ready() reports the blend color
C27_WitnessBlend ==
    /\ enc.pc = "commands" /\ inc.pc = "commands"
    /\ invalid_mask(enc.state.binder) = {}
    /\ enc.state.blend_color = "Required"
    /\ enc.state.stencil_reference = "Required"
    /\ State_is_ready(enc.state) = <<"MissingBlendColor">>
    /\ RenderPass_is_ready(inc.pass) = <<"MissingBlendColor">>


----------------------------------------------------------------------------
\* the bind_graphics_descriptor_sets calls among the calls a step added to raw
EmittedBinds(raw, raw_after) ==
    SelectSeq(SubSeq(raw_after, Len(raw) + 1, Len(raw_after)),
              LAMBDA c : c.op = "bind_graphics_descriptor_sets")

\* the pipeline layout of the pipeline handed by this step
HandedLayout == pipeline_guard[Last(commands').args[1]].layout_id

\* what expect_layout returns at slot `slot` (from 0) for the handed pipeline
ChangeAt(binder, slot) ==
    expect_layout(binder.entries[slot + 1],
                  pipeline_layout_guard[HandedLayout].bind_group_layout_ids[slot + 1]).change

\* the slots the walk of the handed pipeline's layout visits
WalkedSlots(binder) ==
    0 .. Min(Len(binder.entries),
             Len(pipeline_layout_guard[HandedLayout].bind_group_layout_ids)) - 1

\* the slots that match with no mismatch at a lower slot
RebindSlots(binder) ==
    { slot \in WalkedSlots(binder) :
        /\ ChangeAt(binder, slot)[1] = "Match"
        /\ \A lower \in WalkedSlots(binder) :
              lower < slot => ChangeAt(binder, lower)[1] # "Mismatch" }

\* the binds of the step are those of the slots to rebind, in increasing slot
\* order, one group per call; none, and the same binder, on the same layout
RebindsAsExpected(binder, binder_after, binds) ==
    IF binder.pipeline_layout_id = Some(HandedLayout)
    THEN binds = <<>> /\ binder_after = binder
    ELSE /\ { binds[k].args[2] : k \in 1 .. Len(binds) } = RebindSlots(binder)
         /\ \A k \in 1 .. Len(binds) :
              /\ k > 1 => binds[k - 1].args[2] < binds[k].args[2]
              /\ binds[k].args[1] = HandedLayout
              /\ binds[k].args[3] = 1
              /\ binds[k].args[4] = ChangeAt(binder, binds[k].args[2])[2]

\* C28: on a SetPipeline whose layout differs from the binder's,
\* bind_graphics_descriptor_sets is emitted for slot i exactly when
\* expect_layout at slot i returns Match and no slot j < i returned Mismatch,
\* in increasing slot order with one group per call; on a SetPipeline whose
\* layout is the binder's, the expectations are not reset and no
\* descriptor-set bind is emitted.
C28_RebindOnLayoutChange ==
    [][Hands({"SetPipeline"}) =>
        /\ (enc.pc = "commands" /\ ~UnfitPipeline(enc.context, enc.sample_count)) =>
              RebindsAsExpected(enc.state.binder, enc'.state.binder,
                                EmittedBinds(enc.raw, enc'.raw))
        /\ (inc.pc = "commands"
              /\ ~UnfitPipeline(inc.pass.context, inc.pass.sample_count)) =>
              RebindsAsExpected(inc.pass.binder, inc'.pass.binder,
                                EmittedBinds(inc.pass.raw, inc'.pass.raw))]_vars

\* slot 1 holds the group the new layout expects there and slot 0 does not:
\* the pipeline was set and no descriptor set was bound
C28_Witness ==
    /\ commands = <<Command("SetBindGroup", <<1, 1, 0, 0>>),
                    Command("SetPipeline", <<3>>)>>
    /\ enc.pc = "commands" /\ inc.pc = "commands"
    /\ Count(enc.raw, "bind_graphics_pipeline") = 1
    /\ Count(enc.raw, "bind_graphics_descriptor_sets") = 0
    /\ Count(inc.pass.raw, "bind_graphics_descriptor_sets") = 0

\* both slots hold the groups the new layout expects: two binds, slot 0 first
C28_WitnessBoth ==
    /\ commands = <<Command("SetBindGroup", <<0, 2, 0, 1>>),
                    Command("SetBindGroup", <<1, 1, 0, 0>>),
                    Command("SetPipeline", <<3>>)>>
    /\ enc.pc = "commands" /\ inc.pc = "commands"
    /\ Count(enc.raw, "bind_graphics_descriptor_sets") = 2
    /\ Count(inc.pass.raw, "bind_graphics_descriptor_sets") = 2

\* slot 0 keeps its expectation, unmet, and slot 1 matches: slot 1 is bound
C28_WitnessUnchanged ==
    /\ commands = <<Command("SetPipeline", <<2>>),
                    Command("SetBindGroup", <<1, 2, 0, 1>>),
                    Command("SetPipeline", <<6>>)>>
    /\ enc.pc = "commands" /\ inc.pc = "commands"
    /\ invalid_mask(enc.state.binder) = {0}
    /\ Last(enc.raw).op = "bind_graphics_descriptor_sets"
    /\ Last(enc.raw).args[2] = 1
    /\ Last(inc.pass.raw).op = "bind_graphics_descriptor_sets"


----------------------------------------------------------------------------
\* the SetBindGroup handed by this step reaches provide_entry: its offsets
\* pass the assertions and its slot is one of the binder's
ReachesProvide(binder) ==
    /\ Len(HandedOffsets) = bind_group_guard[Last(commands').args[2]].dynamic_count
    /\ ~(debug_assertions /\ Misaligned(HandedOffsets))
    /\ Last(commands').args[1] < Len(binder.entries)

\* what provide_entry returns for the SetBindGroup handed by this step
Provided(binder) ==
    provide_entry(binder, Last(commands').args[1], Last(commands').args[2],
                  HandedOffsets).result

\* the entries of the slots that follow the handed slot, as many as `n`
FollowUpEntries(binder_after, n) ==
    [k \in 1 .. n |-> binder_after.entries[Last(commands').args[1] + 1 + k]]

\* the binds of the step: none if provide_entry returns nothing, else one call
\* at the handed slot with the group, then the groups of the next slots in
\* slot order, then the offsets of the group and of each of those in turn
BindsAsProvided(binder, binder_after, binds) ==
    IF Provided(binder) = None
    THEN binds = <<>>
    ELSE /\ Len(binds) = 1
         /\ LET a == binds[1].args
                n == a[3] - 1
                follow == FollowUpEntries(binder_after, n)
            IN  /\ a[1] = Provided(binder)[1][1]
                /\ a[2] = Last(commands').args[1]
                /\ n = Len(Provided(binder)[1][2])
                /\ a[4] = Last(commands').args[2]
                /\ \A k \in 1 .. n : a[4 + k] = follow[k].provided[2]
                /\ SubSeq(a, 5 + n, Len(a)) =
                      AsDescriptorSetOffsets(
                          HandedOffsets
                            \o Concat([k \in 1 .. n |-> follow[k].dynamic_offsets]))

\* C29: SetBindGroup{index, bg, offsets} emits exactly one
\* bind_graphics_descriptor_sets call when provide_entry returns a layout id
\* and none otherwise; the call starts at slot index, lists bg and then the
\* follow-up groups in slot order, and passes bg's offsets and then each
\* follow-up's offsets in the same order.
C29_BindOnProvide ==
    [][Hands({"SetBindGroup"}) =>
        /\ (enc.pc = "commands" /\ ReachesProvide(enc.state.binder)) =>
              BindsAsProvided(enc.state.binder, enc'.state.binder,
                              EmittedBinds(enc.raw, enc'.raw))
        /\ (inc.pc = "commands" /\ ReachesProvide(inc.pass.binder)) =>
              BindsAsProvided(inc.pass.binder, inc'.pass.binder,
                              EmittedBinds(inc.pass.raw, inc'.pass.raw))]_vars

\* slot 1 held a group with a dynamic offset when slot 0 was given its group:
\* one call binds both, with the offset of the follow-up
C29_Witness ==
    /\ commands = <<Command("SetPipeline", <<6>>),
                    Command("SetBindGroup", <<1, 2, 0, 1>>),
                    Command("SetBindGroup", <<0, 1, 0, 0>>)>>
    /\ enc.pc = "commands" /\ inc.pc = "commands"
    /\ Count(enc.raw, "bind_graphics_descriptor_sets") = 1
    /\ Last(enc.raw).args = <<4, 0, 2, 1, 2, BIND_BUFFER_ALIGNMENT>>
    /\ Last(inc.pass.raw).args = <<4, 0, 2, 1, 2, BIND_BUFFER_ALIGNMENT>>

\* the group given to slot 1 is not bound while slot 0 has none
C29_WitnessNone ==
    /\ commands = <<Command("SetPipeline", <<6>>),
                    Command("SetBindGroup", <<1, 2, 0, 1>>)>>
    /\ enc.pc = "commands" /\ inc.pc = "commands"
    /\ Count(enc.raw, "bind_graphics_descriptor_sets") = 0
    /\ Count(inc.pass.raw, "bind_graphics_descriptor_sets") = 0


----------------------------------------------------------------------------
\* the limit of a rate recomputed from the slots: the least (total_size /
\* stride) as u32 over the slots of the rate with a stride, from u32::MAX
RecomputedLimit(inputs, rate) ==
    LET limits == {U32_MAX} \cup
                  { AsU32(inputs[k].total_size \div inputs[k].stride) :
                      k \in {j \in 1 .. Len(inputs) :
                                inputs[j].stride > 0 /\ inputs[j].rate = rate} }
    IN  CHOOSE m \in limits : \A x \in limits : m <= x

\* what the claim says of the vertex state after SetPipeline(P)
SetPipelinePost(vertex, vertex_after) ==
    LET strides == pipeline_guard[Last(commands').args[1]].vertex_strides
    IN  /\ \A k \in 1 .. Len(vertex_after.inputs) :
              /\ vertex_after.inputs[k].total_size = vertex.inputs[k].total_size
              /\ <<vertex_after.inputs[k].stride, vertex_after.inputs[k].rate>> =
                    IF k <= Len(strides) THEN strides[k] ELSE <<0, "Vertex">>
        /\ vertex_after.vertex_limit = RecomputedLimit(vertex_after.inputs, "Vertex")
        /\ vertex_after.instance_limit = RecomputedLimit(vertex_after.inputs, "Instance")

\* C30: after every successful SetPipeline(P), each vertex slot
\* i < len(P.vertex_strides) has (stride, rate) = P.vertex_strides[i], every
\* other slot has (0, Vertex), and vertex_limit and instance_limit are
\* recomputed from the new strides and the unchanged total_size values.
C30_SetPipelineStrides ==
    [][Hands({"SetPipeline"}) =>
        /\ (enc.pc = "commands" /\ enc'.pc = "commands") =>
              SetPipelinePost(enc.state.vertex, enc'.state.vertex)
        /\ (inc.pc = "commands" /\ inc'.pc = "commands") =>
              SetPipelinePost(inc.pass.vertex_state, inc'.pass.vertex_state)]_vars

\* with a vertex buffer in slot 0, a pipeline of two strides and then one of a
\* single stride 1 were set: slot 1 is back to (0, Vertex), the vertex limit
\* is the size of slot 0 and no slot bounds the instances
C30_Witness ==
    /\ commands = <<Command("SetVertexBuffer", <<0, 1, 0>>),
                    Command("SetPipeline", <<2>>),
                    Command("SetPipeline", <<3>>)>>
    /\ enc.pc = "commands" /\ inc.pc = "commands"
    /\ enc.state.vertex.inputs[1].total_size > 0
    /\ enc.state.vertex.inputs[1].stride = 1
    /\ enc.state.vertex.inputs[2].stride = 0
    /\ enc.state.vertex.inputs[2].rate = "Vertex"
    /\ enc.state.vertex.vertex_limit = enc.state.vertex.inputs[1].total_size
    /\ enc.state.vertex.instance_limit = U32_MAX
    /\ inc.pass.vertex_state = enc.state.vertex


----------------------------------------------------------------------------
\* the views of a pass descriptor in the order color[0..N], resolve targets,
\* depth-stencil
DescriptorOrder(pass) ==
    [k \in 1 .. Len(pass.color_attachments) |-> pass.color_attachments[k].attachment]
        \o ResolveTargets(pass)
        \o (IF pass.depth_stencil_attachment = None
            THEN <<>>
            ELSE <<pass.depth_stencil_attachment[1].attachment>>)

\* the transitions of one attachment: none for a swap-chain image, else the
\* usage the command buffer holds for its texture and then OUTPUT_ATTACHMENT,
\* or OUTPUT_ATTACHMENT alone when it holds none
TransitionsOf(view_id, textures) ==
    LET inner == view_guard[view_id].inner
    IN  IF inner.kind # "Native"
        THEN <<>>
        ELSE IF query(textures, inner.source_id) = None
        THEN <<<<inner.source_id, "OUTPUT_ATTACHMENT">>>>
        ELSE <<<<inner.source_id, query(textures, inner.source_id)[1]>>,
               <<inner.source_id, "OUTPUT_ATTACHMENT">>>>

\* the transitions of the views `views`, one view after the other
TransitionsInOrder(views, textures) ==
    Concat([k \in 1 .. Len(views) |-> TransitionsOf(views[k], textures)])

\* C31: within one pass begin, the tracker transitions of the attachments are
\* recorded in the order color[0..N], then resolve targets, then depth-stencil.
C31_TransitionOrder ==
    \A k \in 1 .. Len(passes) :
        passes[k].began =>
            passes[k].transitions =
                TransitionsInOrder(DescriptorOrder(passes[k].pass), passes[k].textures)


----------------------------------------------------------------------------
\* the textures of the Native views among the attachments of a pass
NativeTextures(pass) ==
    { view_guard[DescriptorOrder(pass)[k]].inner.source_id :
        k \in { j \in 1 .. Len(DescriptorOrder(pass)) :
                  view_guard[DescriptorOrder(pass)[j]].inner.kind = "Native" } }

\* the usage the first change_replace records for a texture: the consistent
\* usage of the command buffer's tracker, or OUTPUT_ATTACHMENT without one
FirstUsage(textures, source_id) ==
    IF query(textures, source_id) = None
    THEN "OUTPUT_ATTACHMENT"
    ELSE query(textures, source_id)[1]

\* the change_replace calls one attachment on the texture records
AttachmentTransitions(textures, source_id) ==
    IF query(textures, source_id) = None
    THEN <<<<source_id, "OUTPUT_ATTACHMENT">>>>
    ELSE <<<<source_id, query(textures, source_id)[1]>>,
           <<source_id, "OUTPUT_ATTACHMENT">>>>

\* the number of attachments of a pass that are Native views of the texture
AttachmentsOn(pass, source_id) ==
    Cardinality({ j \in 1 .. Len(DescriptorOrder(pass)) :
                    /\ view_guard[DescriptorOrder(pass)[j]].inner.kind = "Native"
                    /\ view_guard[DescriptorOrder(pass)[j]].inner.source_id = source_id })

RECURSIVE Repeated(_, _)
Repeated(seq, n) == IF n = 0 THEN <<>> ELSE seq \o Repeated(seq, n - 1)

\* the pass-local tracker holds the texture from the first usage, taken from
\* the command buffer's tracker, to OUTPUT_ATTACHMENT
TrackedFromFirst(base, local, source_id) ==
    \E t \in local :
        /\ t.id = source_id
        /\ t.first = FirstUsage(base, source_id)
        /\ t.last = "OUTPUT_ATTACHMENT"

\* each attachment on the texture recorded one change_replace, and a second
\* one when the command buffer had a consistent usage
RecordedPerAttachment(rec, source_id) ==
    SelectSeq(rec.transitions, LAMBDA tr : tr[1] = source_id)
        = Repeated(AttachmentTransitions(rec.textures, source_id),
                   AttachmentsOn(rec.pass, source_id))

\* C32: after pass begin, for each Native-backed attachment the pass-local
\* tracker holds as first usage the consistent usage found in the command
\* buffer's tracker (OUTPUT_ATTACHMENT when there was none) and as last usage
\* OUTPUT_ATTACHMENT; the second change_replace is recorded exactly when a
\* consistent usage was present.
C32_FirstAndLastUsage ==
    (enc.pc = "commands" /\ inc.pc = "commands") =>
        \A source_id \in NativeTextures(Last(passes).pass) :
            /\ TrackedFromFirst(enc.cmb.trackers.textures,
                                enc.trackers.textures, source_id)
            /\ TrackedFromFirst(inc.cmb.trackers.textures,
                                inc.pass.trackers.textures, source_id)
            /\ Last(passes).textures = enc.cmb.trackers.textures
            /\ RecordedPerAttachment(Last(passes), source_id)

\* a pass has begun on a command buffer that held texture 1 as COPY_DST: its
\* tracker holds the texture from COPY_DST to OUTPUT_ATTACHMENT, the depth
\* texture, new to the command buffer, as OUTPUT_ATTACHMENT only
C32_Witness ==
    /\ enc.pc = "commands"
    /\ Len(passes) = 1
    /\ [id |-> 1, first |-> "COPY_DST", last |-> "OUTPUT_ATTACHMENT"]
          \in enc.trackers.textures
    /\ [id |-> 3, first |-> "OUTPUT_ATTACHMENT", last |-> "OUTPUT_ATTACHMENT"]
          \in enc.trackers.textures
    /\ Len(passes[1].transitions) = 3


----------------------------------------------------------------------------
\* the position of the first call named op in a sub-buffer, 0 without one
FirstCall(raw, op) ==
    IF \E k \in 1 .. Len(raw) : raw[k].op = op
    THEN CHOOSE k \in 1 .. Len(raw) :
            /\ raw[k].op = op
            /\ \A j \in 1 .. k - 1 : raw[j].op # op
    ELSE 0

\* no sub-buffer of the command buffer records a barrier after its finish
BarriersBeforeFinish(raws) ==
    \A n \in 1 .. Len(raws) :
        \A k \in 1 .. Len(raws[n]) :
            raws[n][k].op = "pipeline_barrier" =>
                (FirstCall(raws[n], "finish") = 0 \/ k < FirstCall(raws[n], "finish"))

\* what render_pass_end_pass leaves of a command buffer with a prior
\* sub-buffer: the barriers and the finish on that sub-buffer, the command
\* buffer's trackers through insert_barriers, the pass buffer pushed
EndedOnPrior(i, j) ==
    /\ j.cmb.ended = <<"end_render_pass", "optimize", "insert_barriers", "finish", "push">>
    /\ Len(j.cmb.raw) = Len(i.cmb.raw) + 1
    /\ Last(j.cmb.raw[Len(i.cmb.raw)]).op = "finish"
    /\ Count(j.cmb.raw[Len(i.cmb.raw)], "finish") = 1
    /\ Count(j.cmb.raw[Len(i.cmb.raw)], "pipeline_barrier")
          = Count(Last(i.cmb.raw), "pipeline_barrier")
              + (IF Barriers(i.cmb.trackers, i.pass.trackers) = {} THEN 0 ELSE 1)
    /\ j.cmb.trackers = insert_barriers(i.cmb.trackers, i.pass.trackers)

\* what it leaves of a command buffer without one: only the pass buffer, and
\* the trackers of the pass merged into the command buffer's
EndedOnNone(i, j) ==
    /\ j.cmb.ended = <<"end_render_pass", "optimize", "merge_extend", "push">>
    /\ Len(j.cmb.raw) = 1
    /\ j.cmb.trackers = merge_extend(i.cmb.trackers, i.pass.trackers)

\* C33: render_pass_end_pass performs, in this order: end_render_pass on the
\* pass buffer, trackers.optimize(), then either (with a prior sub-buffer)
\* insert_barriers into that buffer followed by its finish, or (without one)
\* merge_extend of the pass trackers into the command buffer's, and last the
\* push of the pass buffer; exactly one branch runs, and no buffer is
\* finished before its barriers are inserted.
C33_EndPassOrder ==
    [][(inc.pc = "commands" /\ inc'.pc = "done") =>
          /\ Last(inc'.cmb.raw) = Append(inc.pass.raw, Call("end_render_pass", <<>>))
          /\ IF Len(inc.cmb.raw) > 0
             THEN EndedOnPrior(inc, inc')
             ELSE EndedOnNone(inc, inc')
          /\ BarriersBeforeFinish(inc'.cmb.raw)]_vars

\* a pass that set buffer 1 as its index buffer has ended on a command buffer
\* that held the buffer as COPY_DST and had a prior sub-buffer: the barrier
\* and then the finish are on that sub-buffer
C33_Witness ==
    /\ inc.pc = "done"
    /\ Len(inc.cmb.raw) = 2
    /\ Len(inc.cmb.raw[1]) = 2
    /\ inc.cmb.raw[1][1].op = "pipeline_barrier"
    /\ inc.cmb.raw[1][2].op = "finish"
    /\ inc.cmb.ended[3] = "insert_barriers"
    /\ <<1, "INDEX">> \in inc.cmb.trackers.buffers

\* a pass has ended on a command buffer without a sub-buffer: merge_extend
\* ran and the pass buffer is the only one
C33_WitnessNone ==
    /\ inc.pc = "done"
    /\ Len(inc.cmb.raw) = 1
    /\ inc.cmb.ended[3] = "merge_extend"
    /\ Last(inc.cmb.raw[1]).op = "end_render_pass"


----------------------------------------------------------------------------
\* the colors of a pass, before color i, that have a resolve target
ResolvedBefore(pass, i) ==
    Cardinality({j \in 1 .. i - 1 : pass.color_attachments[j].resolve_target # None})

\* the resolve reference of color i in a subpass: ATTACHMENT_UNUSED where the
\* list of resolve references is empty
ResolveReference(subpass, i) ==
    IF subpass.resolves = <<>>
    THEN <<ATTACHMENT_UNUSED, "ColorAttachmentOptimal">>
    ELSE subpass.resolves[i]

\* the references the attachments of a pass have in a subpass built for it
SubpassOf(pass, subpass) ==
    LET n == Len(pass.color_attachments)
    IN  /\ subpass.colors = [i \in 1 .. n |-> <<i - 1, "ColorAttachmentOptimal">>]
        /\ Len(subpass.resolves) \in {0, n}
        /\ \A i \in 1 .. n :
              ResolveReference(subpass, i) =
                  IF pass.color_attachments[i].resolve_target = None
                  THEN <<ATTACHMENT_UNUSED, "ColorAttachmentOptimal">>
                  ELSE <<n + ResolvedBefore(pass, i), "ColorAttachmentOptimal">>
        /\ subpass.depth_stencil =
              IF pass.depth_stencil_attachment = None
              THEN None
              ELSE Some(<<n + ResolvedBefore(pass, n + 1), "DepthStencilAttachmentOptimal">>)

\* the pass found no render pass for its key in the cache of the device
CacheMiss(rec) ==
    \E k \in 1 .. Len(rec.created) : rec.created[k][1] = "create_render_pass"

\* C34: on a render-pass cache miss the subpass is built with color
\* references 0..N-1, with the resolve reference of color i ATTACHMENT_UNUSED
\* when color i has no resolve target and otherwise N + (number of colors
\* j < i that have a resolve target), and with the depth-stencil reference
\* N + (number of resolve targets).
C34_SubpassOnMiss ==
    \A k \in 1 .. Len(passes) :
        (passes[k].began /\ CacheMiss(passes[k])) =>
            SubpassOf(passes[k].pass, passes[k].render_pass[1].subpass)

\* one 4-sample color with a resolve target missed the cache: its resolve
\* reference is (1, ColorAttachmentOptimal)
C34_Witness ==
    \E k \in 1 .. Len(passes) :
        /\ passes[k].began /\ CacheMiss(passes[k])
        /\ Len(passes[k].pass.color_attachments) = 1
        /\ passes[k].pass.color_attachments[1].attachment = 2
        /\ passes[k].render_pass[1].subpass.resolves = <<<<1, "ColorAttachmentOptimal">>>>

\* three colors, the last two with a resolve target, and a depth-stencil
\* attachment missed the cache: the references are unused, 3, 4 and 5
C34_WitnessDepth ==
    \E k \in 1 .. Len(passes) :
        /\ passes[k].began /\ CacheMiss(passes[k])
        /\ passes[k].render_pass[1].subpass.resolves =
              << <<ATTACHMENT_UNUSED, "ColorAttachmentOptimal">>,
                 <<3, "ColorAttachmentOptimal">>,
                 <<4, "ColorAttachmentOptimal">> >>
        /\ passes[k].render_pass[1].subpass.depth_stencil =
              Some(<<5, "DepthStencilAttachmentOptimal">>)


----------------------------------------------------------------------------
\* a coordinate clamped to i16 with saturation
SaturatedI16(v) == IF v <= I16_MAX THEN v ELSE I16_MAX

\* the set_scissors call of a rect with every coordinate saturated
SaturatedScissor(rect) ==
    Call("set_scissors", <<0, SaturatedI16(rect[1]), SaturatedI16(rect[2]),
                              SaturatedI16(rect[3]), SaturatedI16(rect[4])>>)

\* C35: SetScissor (and render_pass_set_scissor_rect) emits each of x, y, w, h
\* unchanged when it is at most i16::MAX and emits i16::MAX for every
\* coordinate greater than i16::MAX.
C35_ScissorSaturates ==
    [][(/\ Len(commands') = Len(commands) + 1
        /\ Last(commands').op = "SetScissor"
        /\ enc.pc = "commands" /\ inc.pc = "commands") =>
          /\ enc'.raw = Append(enc.raw, SaturatedScissor(Last(commands').args))
          /\ inc'.pass.raw = Append(inc.pass.raw, SaturatedScissor(Last(commands').args))]_vars


----------------------------------------------------------------------------
\* every draw call of the sub-buffer has a bind_graphics_pipeline before it
PipelineBeforeDraws(raw) ==
    \A k \in 1 .. Len(raw) :
        raw[k].op \in DrawCalls =>
            \E j \in 1 .. k - 1 : raw[j].op = "bind_graphics_pipeline"

\* C36: no draw, draw_indexed, draw_indirect or draw_indexed_indirect backend
\* call is emitted in a pass before a bind_graphics_pipeline has been emitted
\* in that same pass.
C36_PipelineBeforeDraw ==
    /\ PipelineBeforeDraws(enc.raw)
    /\ inc.pass # None => PipelineBeforeDraws(inc.pass.raw)


----------------------------------------------------------------------------
\* the resolve references of the subpass are unused exactly at the colors of
\* the pass that have no resolve target
UnusedWhereNoTarget(pass, subpass) ==
    \A i \in 1 .. Len(pass.color_attachments) :
        (ResolveReference(subpass, i)[1] = ATTACHMENT_UNUSED)
            <=> (pass.color_attachments[i].resolve_target = None)

\* C37: the backend render pass passed to begin_render_pass, freshly created
\* or taken from the device cache, has subpass resolve references that match
\* the pass's own pairing of color attachments to resolve targets:
\* ATTACHMENT_UNUSED exactly at the colors without a resolve target.
C37_ResolvePairing ==
    \A k \in 1 .. Len(passes) :
        passes[k].began =>
            /\ Len(passes[k].render_pass[1].subpass.resolves)
                  \in {0, Len(passes[k].pass.color_attachments)}
            /\ UnusedWhereNoTarget(passes[k].pass, passes[k].render_pass[1].subpass)


----------------------------------------------------------------------------
\* the size of the buffer last bound to a vertex slot, 0 before any
LastBoundSize(slot) ==
    LET ks == {k \in 1 .. Len(commands) :
                  commands[k].op = "SetVertexBuffer" /\ commands[k].args[1] = slot}
    IN  IF ks = {}
        THEN 0
        ELSE buffer_guard[commands[CHOOSE k \in ks : \A j \in ks : j <= k].args[2]].size

\* the index buffer view lies within its buffer, and no vertex slot holds
\* more bytes than the buffer last bound to it
BuffersInRange(index, vertex) ==
    /\ index.bound_buffer_view # None =>
          /\ index.bound_buffer_view[2] <= index.bound_buffer_view[3]
          /\ index.bound_buffer_view[3] = buffer_guard[index.bound_buffer_view[1]].size
          /\ index.limit <= index.bound_buffer_view[3]
    /\ \A slot \in 0 .. MAX_VERTEX_BUFFERS - 1 :
          vertex.inputs[slot + 1].total_size <= LastBoundSize(slot)

\* C38: in every reachable state of a pass, a bound index buffer view
\* start..end satisfies start <= end = size of the bound buffer, and every
\* vertex slot's total_size is at most the size of the buffer last bound to
\* that slot; an offset beyond the buffer's size never gives a wrapped-around
\* range.
C38_BuffersInRange ==
    /\ enc.pc = "commands" => BuffersInRange(enc.state.index, enc.state.vertex)
    /\ inc.pc = "commands" => BuffersInRange(inc.pass.index_state, inc.pass.vertex_state)


----------------------------------------------------------------------------
\* the bind_index_buffer calls the step added to a sub-buffer
IndexBinds(raw, raw_after) ==
    Count(raw_after, "bind_index_buffer") - Count(raw, "bind_index_buffer")

\* SetPipeline on an index state: the index buffer is bound again exactly
\* when the format changes and a buffer is bound, as the last call of the
\* command, at the offset it was bound at and with the new format; the view
\* stays
RebindsIndexBuffer(pipeline, index, index_after, raw, raw_after) ==
    /\ index_after.bound_buffer_view = index.bound_buffer_view
    /\ IF pipeline.index_format # index.format /\ index.bound_buffer_view # None
       THEN /\ IndexBinds(raw, raw_after) = 1
            /\ Last(raw_after) =
                  Call("bind_index_buffer",
                       <<index.bound_buffer_view[1], index.bound_buffer_view[2],
                         map_index_format(pipeline.index_format)>>)
       ELSE IndexBinds(raw, raw_after) = 0

\* C39: SetPipeline emits bind_index_buffer if and only if the pipeline's
\* index_format differs from the current index.format and an index buffer is
\* bound; when emitted it names the already bound buffer with its original
\* offset and the new format, and bound_buffer_view itself is unchanged.
C39_IndexRebind ==
    [][Hands({"SetPipeline"}) =>
          /\ (enc.pc = "commands" /\ enc'.pc = "commands") =>
                RebindsIndexBuffer(pipeline_guard[Last(commands').args[1]],
                                   enc.state.index, enc'.state.index,
                                   enc.raw, enc'.raw)
          /\ (inc.pc = "commands" /\ inc'.pc = "commands") =>
                RebindsIndexBuffer(pipeline_guard[Last(commands').args[1]],
                                   inc.pass.index_state, inc'.pass.index_state,
                                   inc.pass.raw, inc'.pass.raw)]_vars

\* buffer 1 was bound at offset 4 and a pipeline with Uint32 indices was set:
\* both forms bound buffer 1 again at offset 4 with the new format
C39_Witness ==
    /\ Len(commands) = 2
    /\ commands[1] = Command("SetIndexBuffer", <<1, 4>>)
    /\ commands[2] = Command("SetPipeline", <<2>>)
    /\ enc.pc = "commands" /\ inc.pc = "commands"
    /\ Last(enc.raw) = Call("bind_index_buffer", <<1, 4, map_index_format("Uint32")>>)
    /\ Last(inc.pass.raw) = Last(enc.raw)
    /\ enc.state.index.bound_buffer_view = <<1, 4, 8>>

\* a pipeline with Uint32 indices was set with no index buffer bound: the
\* format changed and nothing was bound
C39_WitnessUnbound ==
    /\ Len(commands) = 1
    /\ commands[1] = Command("SetPipeline", <<2>>)
    /\ enc.pc = "commands"
    /\ enc.state.index.format = "Uint32"
    /\ Count(enc.raw, "bind_index_buffer") = 0


----------------------------------------------------------------------------
\* the pass state of the encoded form (`State`) under the names of its fields
Enc_PassState(e) == e.state

\* the pass state of the incremental form (`RenderPass`) under the same names
Inc_PassState(i) ==
    [binder |-> i.pass.binder,
     blend_color |-> i.pass.blend_color_status,
     stencil_reference |-> i.pass.stencil_reference_status,
     index |-> i.pass.index_state,
     vertex |-> i.pass.vertex_state]

\* SetVertexBuffer{index}: only inputs[index].total_size and the two limits
OnlyVertexSlot(s, t, index) ==
    /\ t.binder = s.binder
    /\ t.blend_color = s.blend_color
    /\ t.stencil_reference = s.stencil_reference
    /\ t.index = s.index
    /\ \A k \in 1 .. MAX_VERTEX_BUFFERS :
          /\ t.vertex.inputs[k].stride = s.vertex.inputs[k].stride
          /\ t.vertex.inputs[k].rate = s.vertex.inputs[k].rate
          /\ k # index + 1 =>
                t.vertex.inputs[k].total_size = s.vertex.inputs[k].total_size

\* SetIndexBuffer: only index.bound_buffer_view and index.limit
OnlyIndexView(s, t) ==
    /\ t.binder = s.binder
    /\ t.blend_color = s.blend_color
    /\ t.stencil_reference = s.stencil_reference
    /\ t.vertex = s.vertex
    /\ t.index.format = s.index.format

\* SetPipeline: no slot's total_size and not index.bound_buffer_view
KeepsBoundBuffers(s, t) ==
    /\ t.index.bound_buffer_view = s.index.bound_buffer_view
    /\ \A k \in 1 .. MAX_VERTEX_BUFFERS :
          t.vertex.inputs[k].total_size = s.vertex.inputs[k].total_size

\* what a command may change of the pass state s to reach t
OwnPartOnly(command, s, t) ==
    CASE command.op = "SetVertexBuffer" -> OnlyVertexSlot(s, t, command.args[1])
      [] command.op = "SetIndexBuffer" -> OnlyIndexView(s, t)
      [] command.op = "SetPipeline" -> KeepsBoundBuffers(s, t)
      [] command.op = "SetBlendValue" -> t = [s EXCEPT !.blend_color = t.blend_color]
      [] command.op = "SetStencilReference" ->
            t = [s EXCEPT !.stencil_reference = t.stencil_reference]
      [] command.op \in {"SetViewport", "SetScissor"} \cup DrawCommands -> t = s
      [] OTHER -> TRUE

\* C40: each command changes only its own part of the pass state:
\* SetVertexBuffer{index} only inputs[index].total_size and the two vertex
\* limits; SetIndexBuffer only index.bound_buffer_view and index.limit;
\* SetPipeline no slot's total_size and not index.bound_buffer_view;
\* SetBlendValue and SetStencilReference only their own OptionalState;
\* SetViewport, SetScissor and the draw commands no binder, optional, index
\* or vertex state.
C40_OwnPartOnly ==
    [][Hands({"SetBindGroup", "SetPipeline", "SetIndexBuffer", "SetVertexBuffer",
              "SetBlendValue", "SetStencilReference", "SetViewport", "SetScissor"}
             \cup DrawCommands) =>
          /\ enc.pc = "commands" =>
                OwnPartOnly(Last(commands'), Enc_PassState(enc), Enc_PassState(enc'))
          /\ inc.pc = "commands" =>
                OwnPartOnly(Last(commands'), Inc_PassState(inc), Inc_PassState(inc'))]_vars

\* after a pipeline with two strides, a vertex buffer was bound to slot 1 and
\* a blend value set: slot 1 holds 4 bytes, slot 0 none, the strides are the
\* pipeline's and the stencil reference is untouched
C40_Witness ==
    /\ commands = << Command("SetPipeline", <<2>>),
                     Command("SetVertexBuffer", <<1, 1, 4>>),
                     Command("SetBlendValue", <<1>>) >>
    /\ enc.pc = "commands" /\ inc.pc = "commands"
    /\ enc.state.vertex.inputs[2].total_size = 4
    /\ enc.state.vertex.inputs[1].total_size = 0
    /\ enc.state.vertex.inputs[2].stride = 1
    /\ enc.state.blend_color = "Set"
    /\ enc.state.stencil_reference = "Unused"
    /\ Inc_PassState(inc) = Enc_PassState(enc)

====
